---- MODULE Spec2Model ----
(***************************************************************************)
(* Hybrid retrieval engine of src/src/vector_retriever.py and its owner    *)
(* RetrievalManager (src/src/rag_chat_agent.py): the BM25 keyword index,   *)
(* the dense-search adapter, weighted RRF fusion, the optional external    *)
(* reranker and the orchestrator.                                          *)
(*                                                                         *)
(* Conventions.                                                            *)
(*  - A text (a document's content, a query) is the sequence of its        *)
(*    whitespace-separated words; the Python string is ' '.join(words), so *)
(*    equality of texts is equality of the strings.  Words are romanised   *)
(*    (the module is ASCII): jiazhi, laodong, jiage, shichang, ziben stand *)
(*    for the two-character words of the spec's worked example, "meiyou"   *)
(*    for a two-character stop word, "de" for a one-character stop word;   *)
(*    WordChars gives the number of characters of the word itself.         *)
(*  - A Python dict is a record; a missing key is a missing field.         *)
(*  - A BM25 score is an exact rational [n |-> numerator,                  *)
(*    d |-> denominator], d > 0, in lowest terms.  math.log is tabulated   *)
(*    to three decimals, which keeps the sign and the order of the scores. *)
(*  - A fused score is the IEEE-754 double the code holds, [e, hi, lo] for *)
(*    (hi * 2^26 + lo) * 2^e with a mantissa of 53 bits, computed with the *)
(*    rounding of the code's operations, together with n and d: the real   *)
(*    number the double stands for (the same operations without rounding). *)
(***************************************************************************)
EXTENDS Integers, Sequences, FiniteSets, TLC

VARIABLES
    documents,        \* KeywordRetriever.documents
    document_terms,   \* KeywordRetriever.document_terms
    doc_lengths,      \* KeywordRetriever.doc_lengths
    term_doc_freq,    \* KeywordRetriever.term_doc_freq
    avg_doc_length,   \* KeywordRetriever.avg_doc_length
    config,           \* EnhancedHybridRetriever: rrf k, vector_weight, keyword_weight
    external_reranker,\* EnhancedHybridRetriever.external_reranker: "None" or "Pinecone"
    manager,          \* how RetrievalManager.__init__ ended and what its reranker construction did
    hash_seed,        \* the seed of str hashing of the process (PYTHONHASHSEED)
    call,             \* the last call of the public API: its arguments and how it ended
    writer,           \* a thread inside add_documents: its position and locals
    reader            \* a thread inside KeywordRetriever.search: its position and locals

vars == <<documents, document_terms, doc_lengths, term_doc_freq, avg_doc_length,
          config, external_reranker, manager, hash_seed, call, writer, reader>>

index == <<documents, document_terms, doc_lengths, term_doc_freq, avg_doc_length>>

-----------------------------------------------------------------------------
(* Bounds of the model.                                                    *)

MaxDocs == 3      \* documents of the corpus add_documents builds up
MaxBatch == 2     \* documents in one add_documents call
MaxTopK == 3      \* largest top_k asked for
MaxRaw == 2       \* raw records the dense backend returns for one query
MaxResp == 2      \* entries of one response of the remote reranker
MaxLists == 2     \* result lists, and weights, of one call of rerank_with_weights
MaxRecords == 2   \* records of the OCR file of one load
MaxSaves == 3     \* save_text calls of one load that can fail

-----------------------------------------------------------------------------
(* Exact rationals for Python's floats.                                    *)

RECURSIVE Gcd(_, _)
Gcd(a, b) == IF b = 0 THEN a ELSE Gcd(b, a % b)

Abs(a) == IF a < 0 THEN -a ELSE a

\* n/d in lowest terms with a positive denominator
Rat(n, d) ==
    LET s == IF d < 0 THEN -1 ELSE 1
        g == Gcd(Abs(n), Abs(d))
    IN  [n |-> (s * n) \div g, d |-> (s * d) \div g]

RZero == [n |-> 0, d |-> 1]
RInt(i) == [n |-> i, d |-> 1]
\* over the least common denominator, so that the numbers stay small
RAdd(a, b) ==
    LET g == Gcd(a.d, b.d)
    IN  Rat(a.n * (b.d \div g) + b.n * (a.d \div g), (a.d \div g) * b.d)
RSub(a, b) == RAdd(a, [n |-> -b.n, d |-> b.d])
RMul(a, b) == Rat(a.n * b.n, a.d * b.d)
RDiv(a, b) == Rat(a.n * b.d, a.d * b.n)

\* -1, 0, 1 as a < b, a = b, a > b; by continued fractions, so that no
\* product of two large numbers is formed
RECURSIVE RCmp(_, _)
RCmp(a, b) ==
    LET qa == a.n \div a.d
        qb == b.n \div b.d
        ra == a.n % a.d
        rb == b.n % b.d
    IN  IF qa < qb THEN -1
        ELSE IF qa > qb THEN 1
        ELSE IF ra = 0 /\ rb = 0 THEN 0
        ELSE IF ra = 0 THEN -1
        ELSE IF rb = 0 THEN 1
        ELSE RCmp([n |-> b.d, d |-> rb], [n |-> a.d, d |-> ra])

RLess(a, b) == RCmp(a, b) < 0
RPos(a) == a.n > 0

-----------------------------------------------------------------------------
(* IEEE 754 doubles, for the scores of the fusion: there the code adds the *)
(* same numbers in different orders, and the sum of three doubles depends  *)
(* on the order.  A positive double is [e, hi, lo]: its value is           *)
(* (hi * 2^26 + lo) * 2^e, with a mantissa hi * 2^26 + lo of 53 bits       *)
(* (2^26 <= hi < 2^27, 0 <= lo < 2^26).  No number of the model is near    *)
(* the ends of the exponent range.  A sequence of bits has the most        *)
(* significant bit first.                                                  *)

\* 2^k for 0 <= k <= 30
Powers2 == [k \in 0..30 |-> 2^k]

Pow2(k) == Powers2[k]

\* the double nearest to the real number with mantissa hi, lo, first dropped
\* bit `guard` and `sticky` telling whether a later dropped bit is set:
\* round to nearest, ties to the even mantissa (the rounding of every
\* operation on doubles)
RoundToDouble(e, hi, lo, guard, sticky) ==
    IF ~(guard = 1 /\ (sticky \/ lo % 2 = 1)) THEN [e |-> e, hi |-> hi, lo |-> lo]
    ELSE IF lo + 1 < Pow2(26) THEN [e |-> e, hi |-> hi, lo |-> lo + 1]
    ELSE IF hi + 1 < Pow2(27) THEN [e |-> e, hi |-> hi + 1, lo |-> 0]
    ELSE [e |-> e + 1, hi |-> Pow2(26), lo |-> 0]

\* the digits of 13 bits of r / d after the point, `count` of them, for
\* 0 <= r < d, and the remainder that is left
RECURSIVE DivDigits(_, _, _)
DivDigits(r, d, count) ==
    IF count = 0 THEN <<r>>
    ELSE <<(r * Pow2(13)) \div d>> \o DivDigits((r * Pow2(13)) % d, d, count - 1)

\* the t with 2^t <= n / d < 2^(t + 1), from the guess t on
RECURSIVE Log2Floor(_, _, _)
Log2Floor(n, d, t) ==
    IF t >= 0 /\ n >= 2 * Pow2(t) * d THEN Log2Floor(n, d, t + 1)
    ELSE IF t > 0 /\ n < Pow2(t) * d THEN Log2Floor(n, d, t - 1)
    ELSE IF t <= 0 /\ n * Pow2(-t) < d THEN Log2Floor(n, d, t - 1)
    ELSE t

\* float(n) / float(d) for small integers n, d > 0, and the double of the
\* decimal literal n / d: the double nearest to n / d
\* the double of 1.q * 2^(e + 52) for the digits q of a quotient by den
DoubleOfDigits(e, den, q) ==
    RoundToDouble(e, Pow2(26) + q[1] * Pow2(13) + q[2], q[3] * Pow2(13) + q[4],
                  (2 * q[5]) \div den, (2 * q[5]) % den # 0)

DoubleOf(n, d) ==
    LET t == Log2Floor(n, d, 0)
        num == IF t >= 0 THEN n ELSE n * Pow2(-t)
        den == IF t >= 0 THEN d * Pow2(t) ELSE d
    IN  DoubleOfDigits(t - 52, den, DivDigits(num - den, den, 4))

\* the mantissa of a double shifted right by s bits, 0 <= s <= 56, with the
\* first dropped bit and whether a later dropped bit is set
ShiftRight(x, s) ==
    IF s = 0 THEN [hi |-> x.hi, lo |-> x.lo, guard |-> 0, sticky |-> FALSE]
    ELSE IF s <= 26
    THEN [hi |-> x.hi \div Pow2(s),
          lo |-> (x.hi % Pow2(s)) * Pow2(26 - s) + x.lo \div Pow2(s),
          guard |-> (x.lo \div Pow2(s - 1)) % 2,
          sticky |-> x.lo % Pow2(s - 1) # 0]
    ELSE [hi |-> 0,
          lo |-> x.hi \div Pow2(s - 26),
          guard |-> (x.hi \div Pow2(s - 27)) % 2,
          sticky |-> x.hi % Pow2(s - 27) # 0 \/ x.lo # 0]

\* the sum of a double and the shifted mantissa s of a smaller one
AddAligned(big, s) ==
    LET lo == big.lo + s.lo
        hi == big.hi + s.hi + lo \div Pow2(26)
    IN  IF hi < Pow2(27)
        THEN RoundToDouble(big.e, hi, lo % Pow2(26), s.guard, s.sticky)
        ELSE RoundToDouble(big.e + 1, hi \div 2,
                           (hi % 2) * Pow2(25) + (lo % Pow2(26)) \div 2,
                           lo % 2, s.guard = 1 \/ s.sticky)

\* x + y on doubles: the exact sum, rounded once
DoubleAdd(x, y) ==
    LET big == IF x.e >= y.e THEN x ELSE y
        small == IF x.e >= y.e THEN y ELSE x
        shift == IF big.e - small.e > 56 THEN 56 ELSE big.e - small.e
    IN  AddAligned(big, ShiftRight(small, shift))

\* the mantissa of a double in four digits of 13 bits, the least
\* significant first (the last has 14 bits)
Digits13(x) ==
    <<x.lo % Pow2(13), x.lo \div Pow2(13), x.hi % Pow2(13), x.hi \div Pow2(13)>>

\* the sum of the products a[i] * b[j] of column k, i + j = k + 2, from i on
RECURSIVE ColumnSum(_, _, _, _)
ColumnSum(a, b, k, i) ==
    IF i > 4 THEN 0
    ELSE (IF k + 2 - i \in 1..4 THEN a[i] * b[k + 2 - i] ELSE 0)
         + ColumnSum(a, b, k, i + 1)

\* the digits of 13 bits of the product of two mantissas from column k on,
\* the least significant first; the last one holds what is left
RECURSIVE ProductDigits(_, _, _, _)
ProductDigits(a, b, k, carry) ==
    LET t == ColumnSum(a, b, k, 1) + carry
    IN  IF k = 6 THEN <<t>>
        ELSE <<t % Pow2(13)>> \o ProductDigits(a, b, k + 1, t \div Pow2(13))

\* the double nearest to p * 2^e for the digits p of a product
RoundProduct(e, p) ==
    IF p[7] >= Pow2(27)
    THEN RoundToDouble(e + 53, p[7] \div 2,
                       (p[7] % 2) * Pow2(25) + p[6] * Pow2(12) + p[5] \div 2,
                       p[5] % 2, p[1] + p[2] + p[3] + p[4] # 0)
    ELSE RoundToDouble(e + 52, p[7], p[6] * Pow2(13) + p[5], p[4] \div Pow2(12),
                       p[1] + p[2] + p[3] + (p[4] % Pow2(12)) # 0)

\* x * y on doubles: the exact product of 105 or 106 bits, rounded once
DoubleMul(x, y) ==
    RoundProduct(x.e + y.e, ProductDigits(Digits13(x), Digits13(y), 0, 0))

\* x < y on doubles
DoubleLess(x, y) ==
    \/ x.e < y.e
    \/ x.e = y.e /\ x.hi < y.hi
    \/ x.e = y.e /\ x.hi = y.hi /\ x.lo < y.lo

\* the double of a fused score, and the real number it stands for
Double(score) == [e |-> score.e, hi |-> score.hi, lo |-> score.lo]

Real(score) == [n |-> score.n, d |-> score.d]

\* a < b as the sort compares two scores: the doubles of fused scores, the
\* rationals of the others
ScoreLess(a, b) ==
    IF "e" \in DOMAIN a /\ "e" \in DOMAIN b THEN DoubleLess(a, b) ELSE RLess(a, b)

\* 1000 * ln(m), rounded, for the integers the IDF formula can meet
LnTab(m) ==
    CASE m = 1 -> 0
      [] m = 3 -> 1099
      [] m = 5 -> 1609
      [] m = 7 -> 1946
      [] m = 9 -> 2197
      [] m = 11 -> 2398
      [] m = 13 -> 2565

\* math.log of a positive rational, to three decimals
MathLog(x) == Rat(LnTab(x.n) - LnTab(x.d), 1000)

-----------------------------------------------------------------------------
(* Texts.                                                                  *)

\* number of characters of the word a romanised word stands for
WordChars(w) ==
    CASE w = "de" -> 1
      [] w = "!" -> 1
      [] w \in {"GDP", "gdp"} -> 3
      [] OTHER -> 2

\* re.sub(r'[^\u4e00-\u9fa5a-zA-Z0-9\s]', ' ', text): a word made of other
\* characters becomes whitespace
IsPunctuation(w) == w \in {"!"}

\* str.lower
Lower(w) == IF w = "GDP" THEN "gdp" ELSE w

\* KeywordRetriever._initialize_stopwords: the built-in set, as far as the
\* vocabulary of the model meets it
StopWords == {"de", "meiyou"}

\* KeywordRetriever._preprocess_text
PreprocessText(text) ==
    LET cleaned == SelectSeq(text, LAMBDA w: ~IsPunctuation(w))
        terms == [i \in DOMAIN cleaned |-> Lower(cleaned[i])]
    IN  SelectSeq(terms, LAMBDA t: WordChars(t) > 1 /\ t \notin StopWords)

-----------------------------------------------------------------------------
(* The documents and queries of the model.                                 *)

\* A source is a text too; <<>> is the empty string.
Doc1 == [content |-> <<"jiazhi", "jiazhi", "laodong">>, source |-> <<"OCR_page_3_text">>]
Doc2 == [content |-> <<"jiage", "shichang">>, source |-> <<>>]
Doc3 == [content |-> <<"laodong", "jiazhi">>]
Doc4 == [content |-> <<"GDP", "de", "ziben">>, source |-> <<>>]
DocBlank == [content |-> <<"de", "!">>, source |-> <<>>]
DocMalformed == [source |-> <<"OCR_page_7_text">>]

DocPool == {Doc1, Doc2, Doc3, Doc4, DocBlank, DocMalformed}

SeqsUpTo(S, lo, hi) == UNION {[1..k -> S] : k \in lo..hi}

Batches == SeqsUpTo(DocPool, 0, MaxBatch)

Queries == {<<"jiazhi">>, <<"jiage", "gdp">>, <<"laodong", "jiage">>, <<"de", "!">>}

TopKs == 0..MaxTopK

-----------------------------------------------------------------------------
(* KeywordRetriever: the BM25 index.  Positions are 1-based here, 0-based  *)
(* in the source.                                                          *)

K1 == Rat(3, 2)       \* self.k1 = 1.5
B == Rat(3, 4)        \* self.b = 0.75
Half == Rat(1, 2)     \* the 0.5 of the IDF formula

EmptyFreq == [t \in {} |-> 0]   \* defaultdict(int)

TermSet(terms) == {terms[i] : i \in DOMAIN terms}

RECURSIVE SumSeq(_)
SumSeq(s) == IF s = <<>> THEN 0 ELSE Head(s) + SumSeq(Tail(s))

\* the index fields of the retriever, as one record
Self == [documents |-> documents, document_terms |-> document_terms,
         doc_lengths |-> doc_lengths, term_doc_freq |-> term_doc_freq,
         avg_doc_length |-> avg_doc_length]

\* _build_index, lines 141-143: the three collections start empty
BuildReset(self) ==
    [self EXCEPT !.document_terms = <<>>, !.doc_lengths = <<>>,
                 !.term_doc_freq = EmptyFreq]

\* doc['content'] raises KeyError
IsMalformed(doc) == "content" \notin DOMAIN doc

BuildDocPerOccurrence(self, doc) ==
    LET terms == PreprocessText(doc.content)
        freq == self.term_doc_freq
    IN  [self EXCEPT
            !.document_terms = Append(@, terms),
            !.doc_lengths = Append(@, Len(terms)),
            !.term_doc_freq =
                [t \in DOMAIN freq \cup TermSet(terms) |->
                    (IF t \in DOMAIN freq THEN freq[t] ELSE 0)
                    + Cardinality({i \in DOMAIN terms : terms[i] = t})]]

\* _build_index, lines 146-151: one document of the loop
BuildDoc(self, doc) ==
    LET terms == PreprocessText(doc.content)
        seen == TermSet(terms)
        freq == self.term_doc_freq
    IN  [self EXCEPT
            !.document_terms = Append(@, terms),
            !.doc_lengths = Append(@, Len(terms)),
            !.term_doc_freq =
                [t \in DOMAIN freq \cup seen |->
                    (IF t \in DOMAIN freq THEN freq[t] ELSE 0)
                    + (IF t \in seen THEN 1 ELSE 0)]]

\* _build_index, line 153
BuildAverage(self) ==
    [self EXCEPT !.avg_doc_length =
        IF self.doc_lengths # <<>>
        THEN Rat(SumSeq(self.doc_lengths), Len(self.doc_lengths))
        ELSE RZero]

\* the loop of _build_index from document i on: it stops at the first
\* malformed document, leaving what it has built so far
RECURSIVE BuildLoop(_, _)
BuildLoop(self, i) ==
    IF i > Len(self.documents) THEN [raised |-> FALSE, self |-> self]
    ELSE IF IsMalformed(self.documents[i]) THEN [raised |-> TRUE, self |-> self]
    ELSE BuildLoop(BuildDoc(self, self.documents[i]), i + 1)

\* KeywordRetriever._build_index
BuildIndex(self) ==
    LET built == BuildLoop(BuildReset(self), 1)
    IN  IF built.raised THEN built
        ELSE [raised |-> FALSE, self |-> BuildAverage(built.self)]

\* KeywordRetriever.add_documents
AddDocumentsTo(self, batch) ==
    BuildIndex([self EXCEPT !.documents = @ \o batch])

\* term_freq[term] of _calculate_bm25_score
TermFreq(doc_terms, term) == Cardinality({i \in DOMAIN doc_terms : doc_terms[i] = term})

\* self.term_doc_freq[term] of a defaultdict(int)
DocFreq(self, term) ==
    IF term \in DOMAIN self.term_doc_freq THEN self.term_doc_freq[term] ELSE 0

\* idf, line 170, of a document frequency df among n documents
IdfOf(df, n) == MathLog(RDiv(RAdd(RInt(n - df), Half), RAdd(RInt(df), Half)))

\* lines 169-170
Idf(self, term) == IdfOf(DocFreq(self, term), Len(self.documents))

\* tf_component, line 174 (avg_doc_length # 0)
TfComponent(self, tf, doc_length) ==
    LET norm == RAdd(RSub(RInt(1), B),
                     RMul(B, RDiv(RInt(doc_length), self.avg_doc_length)))
    IN  RDiv(RMul(RInt(tf), RAdd(K1, RInt(1))), RAdd(RInt(tf), RMul(K1, norm)))

\* the loop over query_terms of _calculate_bm25_score, from term j on
RECURSIVE ScoreLoop(_, _, _, _, _)
ScoreLoop(self, query_terms, doc_idx, j, score) ==
    IF j > Len(query_terms) THEN [error |-> "", score |-> score]
    ELSE
        LET term == query_terms[j]
            tf == TermFreq(self.document_terms[doc_idx], term)
        IN  IF tf = 0 THEN ScoreLoop(self, query_terms, doc_idx, j + 1, score)
            ELSE IF self.avg_doc_length.n = 0
            THEN [error |-> "ZeroDivisionError", score |-> score]
            ELSE ScoreLoop(self, query_terms, doc_idx, j + 1,
                    RAdd(score, RMul(Idf(self, term),
                                     TfComponent(self, tf, self.doc_lengths[doc_idx]))))

\* KeywordRetriever._calculate_bm25_score
CalculateBm25Score(self, query_terms, doc_idx) ==
    IF doc_idx > Len(self.document_terms) \/ doc_idx > Len(self.doc_lengths)
    THEN [error |-> "IndexError", score |-> RZero]
    ELSE ScoreLoop(self, query_terms, doc_idx, 1, RZero)

\* list.sort(key = score, reverse = True): descending and stable
RECURSIVE InsertDesc(_, _)
InsertDesc(sorted, e) ==
    IF sorted = <<>> THEN <<e>>
    ELSE IF ScoreLess(Head(sorted).score, e.score) THEN <<e>> \o sorted
    ELSE <<Head(sorted)>> \o InsertDesc(Tail(sorted), e)

RECURSIVE SortDesc(_)
SortDesc(s) ==
    IF s = <<>> THEN <<>>
    ELSE InsertDesc(SortDesc(SubSeq(s, 1, Len(s) - 1)), s[Len(s)])

\* s[:k] for k >= 0
Take(s, k) == SubSeq(s, 1, IF k < Len(s) THEN k ELSE Len(s))

\* f"OCR_page_{page_idx}_{text_type}": the name of a source
SourceName(page_idx, text_type) ==
    <<"OCR_page_" \o ToString(page_idx) \o "_" \o text_type>>

\* the pages and the types of the records of the model
PageNumbers == 0..9
TextTypes == {"text", "title"}

\* re.search(r"OCR_page_(\d+)_", source_preview), lines 219-222: the page is
\* read back from the name of the source (no content of the model holds
\* such a name)
PageMeta(preview) ==
    LET pages == {p \in PageNumbers : \E t \in TextTypes : preview = SourceName(p, t)}
    IN  IF pages # {} THEN [page_idx |-> CHOOSE p \in pages : TRUE] ELSE <<>>

\* lines 208-229: one entry of the result (a content of the model is shorter
\* than the 80 characters of the preview)
FormatResult(doc, score) ==
    LET source_text == IF "source" \in DOMAIN doc THEN doc.source ELSE <<>>
        source_preview == IF source_text # <<>> THEN source_text ELSE doc.content
    IN  [file_name |-> source_preview, content |-> doc.content,
         score |-> score, metadata |-> PageMeta(source_preview)]

HasScoreOrZero(score) == score.n >= 0

\* line 199: if score > 0
HasScore(score) == RPos(score)

\* lines 196-200: the scores of documents i.. ; the first failure ends the scan
RECURSIVE ScanScores(_, _, _, _)
ScanScores(self, query_terms, i, doc_scores) ==
    IF i > Len(self.documents) THEN [error |-> "", doc_scores |-> doc_scores]
    ELSE
        LET s == CalculateBm25Score(self, query_terms, i)
        IN  IF s.error # "" THEN [error |-> s.error, doc_scores |-> doc_scores]
            ELSE ScanScores(self, query_terms, i + 1,
                    IF HasScore(s.score)
                    THEN Append(doc_scores, [idx |-> i, score |-> s.score])
                    ELSE doc_scores)

\* lines 203-231
FormatScores(self, doc_scores, top_k) ==
    LET top == Take(SortDesc(doc_scores), top_k)
    IN  [r \in DOMAIN top |-> FormatResult(self.documents[top[r].idx], top[r].score)]

\* KeywordRetriever.search
KeywordSearch(self, query, top_k) ==
    IF self.documents = <<>> THEN [error |-> "", result |-> <<>>]
    ELSE
        LET query_terms == PreprocessText(query)
        IN  IF query_terms = <<>> THEN [error |-> "", result |-> <<>>]
            ELSE
                LET scan == ScanScores(self, query_terms, 1, <<>>)
                IN  IF scan.error # "" THEN [error |-> scan.error, result |-> <<>>]
                    ELSE [error |-> "",
                          result |-> FormatScores(self, scan.doc_scores, top_k)]

AfterSearchReadAll(self, query) ==
    IF self.documents = <<>> THEN self
    ELSE
        LET read == TermSet(PreprocessText(query))
            freq == self.term_doc_freq
        IN  [self EXCEPT !.term_doc_freq =
                [t \in DOMAIN freq \cup read |-> IF t \in DOMAIN freq THEN freq[t] ELSE 0]]

\* What a search leaves of the retriever.  Its one access to the fields that
\* can write is self.term_doc_freq[term], line 169: term_doc_freq is a
\* defaultdict, and reading a key it has not inserts the key with 0.  The
\* line is reached for the query terms that are among the terms of a
\* scanned document.
AfterSearch(self, query) ==
    IF self.documents = <<>> THEN self
    ELSE
        LET query_terms == TermSet(PreprocessText(query))
            read == {t \in query_terms :
                        \E i \in DOMAIN self.document_terms :
                            i <= Len(self.documents) /\ t \in TermSet(self.document_terms[i])}
            freq == self.term_doc_freq
        IN  [self EXCEPT !.term_doc_freq =
                [t \in DOMAIN freq \cup read |-> IF t \in DOMAIN freq THEN freq[t] ELSE 0]]

-----------------------------------------------------------------------------
(* VecRetriever: the adapter of the dense backend.                         *)

\* A raw record is an object with a payload, a dict, or something else.
Raw1 == [kind |-> "object", score |-> Rat(9, 10),
         payload |-> [text |-> Doc1.content, source_file |-> <<"book.pdf">>]]
Raw2 == [kind |-> "dict",
         item |-> [content |-> Doc2.content, file_name |-> <<"notes">>,
                   score |-> Rat(4, 5)]]
Raw2b == [kind |-> "object", payload |-> [text |-> Doc2.content]]
RawEmpty == [kind |-> "dict", item |-> [text |-> <<>>, source_file |-> <<"void">>]]

\* a record whose content is one blank, and a record that is neither an
\* object with a payload nor a dict
RawBlank == [kind |-> "dict", item |-> [content |-> <<" ">>, file_name |-> <<"blank">>]]
RawOther == [kind |-> "other"]

RawPool == {Raw1, Raw2, Raw2b, RawEmpty}

VecRawPool == RawPool \cup {RawBlank, RawOther}

\* what the backend does with one query: it raises, or it returns records
\* of the pool, as many as it likes
Behaviours(pool) ==
    {[raises |-> TRUE, records |-> <<>>]}
    \cup {[raises |-> FALSE, records |-> r] : r \in SeqsUpTo(pool, 0, MaxRaw)}

BackendBehaviours == Behaviours(RawPool)

\* d.get(key, default)
Get(d, key, default) == IF key \in DOMAIN d THEN d[key] ELSE default

\* a or b, for texts: the empty string is falsy
OrText(a, b) == IF a # <<>> THEN a ELSE b

\* the seeds of the model
HashSeeds == 0..1

\* hash(content), line 62: a 64-bit value that depends on the seed of the
\* process, so two different strings can have the same one.  A hash value
\* is named here by a content that has it: under seed 1 the contents of Doc1
\* and Doc2 have the same hash value, under seed 0 no two contents of the
\* model have.
Hash(seed, content) ==
    IF seed = 1 /\ content = Doc2.content THEN Doc1.content ELSE content

\* lines 48-60: content, source, score and metadata of one raw record; the
\* score is kept as a field only when it is not None
Normalize(item) ==
    IF item.kind = "object" THEN
        LET payload == item.payload
            base == [file_name |-> Get(payload, "source_file", <<"unknown">>),
                     content |-> Get(payload, "text", <<>>),
                     metadata |-> payload]
        IN  IF "score" \in DOMAIN item THEN base @@ [score |-> item.score] ELSE base
    ELSE
        LET d == item.item
            base == [file_name |-> OrText(Get(d, "source_file", <<>>),
                                          Get(d, "file_name", <<"unknown">>)),
                     content |-> OrText(Get(d, "text", <<>>), Get(d, "content", <<>>)),
                     metadata |-> Get(d, "metadata", <<>>)]
        IN  IF "score" \in DOMAIN d THEN base @@ [score |-> d.score] ELSE base

\* lines 44-73: the loop over the raw records from record i on
RECURSIVE VecLoop(_, _, _, _, _)
VecLoop(seed, raw_results, i, results, seen_contents) ==
    IF i > Len(raw_results) THEN results
    ELSE
        LET item == raw_results[i]
        IN  IF item.kind \notin {"object", "dict"}
            THEN VecLoop(seed, raw_results, i + 1, results, seen_contents)
            ELSE
                LET r == Normalize(item)
                IN  IF r.content # <<>> /\ Hash(seed, r.content) \notin seen_contents
                    THEN VecLoop(seed, raw_results, i + 1, Append(results, r),
                                 seen_contents \cup {Hash(seed, r.content)})
                    ELSE VecLoop(seed, raw_results, i + 1, results, seen_contents)

\* VecRetriever.search: a failure of the backend is not caught; top_k goes
\* to the backend only, which answers as it likes
VecSearch(seed, backend) ==
    IF backend.raises THEN [error |-> "UpstreamError", result |-> <<>>]
    ELSE [error |-> "", result |-> VecLoop(seed, backend.records, 1, <<>>, {})]

-----------------------------------------------------------------------------
(* RRFReranker: weighted reciprocal rank fusion.                           *)

\* line 275: weight * (1.0 / (rank + 1 + self.k)) for the 1-based rank: the
\* double of the weight times the double of the quotient, rounded, and the
\* real number weight / (rank + k)
WeightedRrfScore(weight, rank, k) ==
    RMul(weight, RDiv(RInt(1), RInt(rank + k)))
        @@ DoubleMul(DoubleOf(weight.n, weight.d), DoubleOf(1, rank + k))

\* line 279: doc_scores[content] += weighted_rrf_score, a sum of doubles
\* rounded at every addition, and the sum of the real numbers
ScoreAdd(a, b) == RAdd(a, b) @@ DoubleAdd(a, b)

AccumulateAssign(acc, result, rank, weight, k) ==
    LET weighted_rrf_score == WeightedRrfScore(weight, rank, k)
        hit == {i \in DOMAIN acc : acc[i].content = result.content}
    IN  IF hit # {}
        THEN [i \in DOMAIN acc |->
                IF i \in hit THEN [acc[i] EXCEPT !.score = weighted_rrf_score] ELSE acc[i]]
        ELSE Append(acc, [content |-> result.content,
                          score |-> weighted_rrf_score, info |-> result])

AccumulateLastInfo(acc, result, rank, weight, k) ==
    LET weighted_rrf_score == WeightedRrfScore(weight, rank, k)
        hit == {i \in DOMAIN acc : acc[i].content = result.content}
    IN  IF hit # {}
        THEN [i \in DOMAIN acc |->
                IF i \in hit
                THEN [acc[i] EXCEPT !.score = ScoreAdd(@, weighted_rrf_score),
                                    !.info = result]
                ELSE acc[i]]
        ELSE Append(acc, [content |-> result.content,
                          score |-> weighted_rrf_score, info |-> result])

\* lines 272-282: one result at 1-based rank `rank` of a list of weight
\* `weight`; acc holds, in order of first appearance, content, fused score
\* and the first result seen with that content (doc_scores and doc_info)
Accumulate(acc, result, rank, weight, k) ==
    LET weighted_rrf_score == WeightedRrfScore(weight, rank, k)
        hit == {i \in DOMAIN acc : acc[i].content = result.content}
    IN  IF hit # {}
        THEN [i \in DOMAIN acc |->
                IF i \in hit
                THEN [acc[i] EXCEPT !.score = ScoreAdd(@, weighted_rrf_score)]
                ELSE acc[i]]
        ELSE Append(acc, [content |-> result.content,
                          score |-> weighted_rrf_score, info |-> result])

\* line 271: the results of one list from rank `rank` on
RECURSIVE AccumulateList(_, _, _, _, _)
AccumulateList(acc, results, rank, weight, k) ==
    IF rank > Len(results) THEN acc
    ELSE AccumulateList(Accumulate(acc, results[rank], rank, weight, k),
                        results, rank + 1, weight, k)

\* line 270: the lists from list i on
RECURSIVE AccumulateLists(_, _, _, _, _)
AccumulateLists(acc, result_lists, weights, i, k) ==
    IF i > Len(result_lists) THEN acc
    ELSE AccumulateLists(AccumulateList(acc, result_lists[i], 1, weights[i], k),
                         result_lists, weights, i + 1, k)

\* lines 288-292: a copy of the first result seen, with the fused score
FusedEntry(e) == [weighted_rrf_score |-> e.score] @@ e.info

\* zip(result_lists, weights), line 270: as many pairs as the shorter has
Zip(result_lists, weights) ==
    IF Len(result_lists) < Len(weights) THEN Len(result_lists) ELSE Len(weights)

RerankWithWeightsUnchecked(k, result_lists, weights, top_k) ==
    LET n == Zip(result_lists, weights)
        acc == AccumulateLists(<<>>, SubSeq(result_lists, 1, n), SubSeq(weights, 1, n), 1, k)
        top == Take(SortDesc(acc), top_k)
    IN  [error |-> "", result |-> [i \in DOMAIN top |-> FusedEntry(top[i])]]

RerankWithWeightsUnweighted(k, result_lists, weights, top_k) ==
    IF Len(result_lists) # Len(weights) THEN [error |-> "ValueError", result |-> <<>>]
    ELSE
        LET acc == AccumulateLists(<<>>, result_lists,
                                   [i \in DOMAIN weights |-> RInt(1)], 1, k)
            top == Take(SortDesc(acc), top_k)
        IN  [error |-> "", result |-> [i \in DOMAIN top |-> FusedEntry(top[i])]]

RerankWithWeightsLastFirst(k, result_lists, weights, top_k) ==
    IF Len(result_lists) # Len(weights) THEN [error |-> "ValueError", result |-> <<>>]
    ELSE
        LET acc == AccumulateLists(<<>>, result_lists, weights, 1, k)
            rev == [i \in DOMAIN acc |-> acc[Len(acc) + 1 - i]]
            top == Take(SortDesc(rev), top_k)
        IN  [error |-> "", result |-> [i \in DOMAIN top |-> FusedEntry(top[i])]]

\* RRFReranker.rerank_with_weights
RerankWithWeights(k, result_lists, weights, top_k) ==
    IF Len(result_lists) # Len(weights) THEN [error |-> "ValueError", result |-> <<>>]
    ELSE
        LET acc == AccumulateLists(<<>>, result_lists, weights, 1, k)
            top == Take(SortDesc(acc), top_k)
        IN  [error |-> "", result |-> [i \in DOMAIN top |-> FusedEntry(top[i])]]

-----------------------------------------------------------------------------
(* PineconeCohereReranker: the optional external reranker.                 *)

\* An entry of the remote response with the 0-based index i of a document
\* sent and a relevance score that is a number.
RespItem(i) == [index |-> i, score |-> Rat(9 - i, 10)]

\* The entries of a response to n documents that have an integer index and
\* a numeric score: one per index, the index n (out of range) included.
RespItems(n) == {RespItem(i) : i \in 0..n}

\* An entry whose score is None, missing or not a number, which has no
\* field `score` here, and an entry whose index is None, missing or not an
\* integer, which has no field `index` here.
OtherItems == {[index |-> 0], [score |-> Rat(1, 2)]}

\* what the remote service does with a request of n documents: the call
\* raises, or it answers with a list of entries, in any order, an index
\* repeated included; the first entry can be one of the other entries
RemoteBehaviours(n) ==
    {[raises |-> TRUE, data |-> <<>>]}
    \cup {[raises |-> FALSE, data |-> d] : d \in SeqsUpTo(RespItems(n), 0, MaxResp)}
    \cup {[raises |-> FALSE, data |-> <<item>> \o d] :
            item \in OtherItems, d \in SeqsUpTo(RespItems(n), 0, MaxResp - 1)}

NoRemote == [raises |-> FALSE, data |-> <<>>]

\* line 429: isinstance(idx, int) and 0 <= idx < len(results)
ValidIndex(item, results) ==
    "index" \in DOMAIN item /\ 0 <= item.index /\ item.index < Len(results)

\* lines 431-433: rerank_score only for a score that is a number, and
\* rerank_position, the position of the entry in the response
RerankFieldsOf(item, rank) ==
    IF "score" \in DOMAIN item
    THEN [rerank_score |-> item.score, rerank_position |-> rank]
    ELSE [rerank_position |-> rank]

\* lines 421-434: the entries of the response from entry `rank` on
RECURSIVE Reorder(_, _, _, _)
Reorder(results, data, rank, reordered) ==
    IF rank > Len(data) THEN reordered
    ELSE IF ValidIndex(data[rank], results)
    THEN Reorder(results, data, rank + 1,
                 Append(reordered,
                        RerankFieldsOf(data[rank], rank) @@ results[data[rank].index + 1]))
    ELSE Reorder(results, data, rank + 1, reordered)

\* PineconeCohereReranker.rerank: a failure of the remote call is not caught
ExternalRerank(results, top_n, remote) ==
    IF results = <<>> THEN [error |-> "", result |-> <<>>]
    ELSE IF remote.raises THEN [error |-> "RemoteError", result |-> <<>>]
    ELSE [error |-> "", result |-> Reorder(results, remote.data, 1, <<>>)]

\* PineconeCohereReranker.__init__: "" when the object is built, else the
\* exception raised
Strip(text) == SelectSeq(text, LAMBDA w: w # " ")

RerankerInit(pinecone_installed, api_key, client_ok) ==
    IF ~pinecone_installed THEN "ImportError"
    ELSE IF Strip(api_key) = <<>> THEN "ValueError"
    ELSE IF ~client_ok THEN "ClientError"
    ELSE ""

-----------------------------------------------------------------------------
(* Writes of the two rerankers.  A dictionary of an input list is named by *)
(* <<list, rank>>; a write goes to that dictionary itself or to a copy of  *)
(* it.                                                                     *)

\* line 276, doc_info[content] = result: the dictionary doc_info refers to
\* is the first one with the content, in list order then rank order
InfoRef(result_lists, content) ==
    LET all == UNION {{<<l, r>> : r \in DOMAIN result_lists[l]} : l \in DOMAIN result_lists}
        refs == {p \in all : result_lists[p[1]][p[2]].content = content}
    IN  CHOOSE p \in refs :
            \A q \in refs : p[1] < q[1] \/ (p[1] = q[1] /\ p[2] <= q[2])

OutputWritesInPlace(result_lists, fused) ==
    [i \in DOMAIN fused |->
        [on |-> "input", of |-> InfoRef(result_lists, fused[i].content),
         fields |-> [weighted_rrf_score |-> fused[i].weighted_rrf_score]]]

\* lines 288-292: weighted_rrf_score is written into doc_info[content].copy()
OutputWrites(result_lists, fused) ==
    [i \in DOMAIN fused |->
        [on |-> "copy", of |-> InfoRef(result_lists, fused[i].content),
         fields |-> [weighted_rrf_score |-> fused[i].weighted_rrf_score]]]

\* lines 429-434: rerank_score and rerank_position are written into
\* dict(results[idx]), for every entry of the response with a valid index
RerankWrites(results, data) ==
    LET valid == SelectSeq([i \in DOMAIN data |-> i],
                           LAMBDA i : ValidIndex(data[i], results))
    IN  [j \in DOMAIN valid |->
            [on |-> "copy", of |-> <<1, data[valid[j]].index + 1>>,
             fields |-> RerankFieldsOf(data[valid[j]], valid[j])]]

\* the input lists once the writes from write i on are done
RECURSIVE AfterWrites(_, _, _)
AfterWrites(lists, writes, i) ==
    IF i > Len(writes) THEN lists
    ELSE IF writes[i].on = "copy" THEN AfterWrites(lists, writes, i + 1)
    ELSE AfterWrites(
            [lists EXCEPT ![writes[i].of[1]][writes[i].of[2]] = writes[i].fields @@ @],
            writes, i + 1)

-----------------------------------------------------------------------------
(* EnhancedHybridRetriever and RetrievalManager.                           *)

\* rrf_k, vector_weight, keyword_weight: the spec's worked example, the
\* defaults of RAGConfig, and unequal weights with the default k of
\* EnhancedHybridRetriever
Configs ==
    {[rrf_k |-> 0, vector_weight |-> RInt(1), keyword_weight |-> RInt(1)],
     [rrf_k |-> 20, vector_weight |-> Rat(1, 2), keyword_weight |-> Rat(1, 2)],
     [rrf_k |-> 60, vector_weight |-> Rat(7, 10), keyword_weight |-> Rat(3, 10)]}

DefaultConfig == [rrf_k |-> 60, vector_weight |-> RInt(1), keyword_weight |-> RInt(1)]

RetrieveKeywordFallback(self, cfg, seed, query, top_k, backend) ==
    LET failed(e, v, kw) ==
            [error |-> e, vector_results |-> v, keyword_results |-> kw, fused |-> <<>>]
        vec == VecSearch(seed, backend)
        kw == KeywordSearch(self, query, top_k)
        rrf == RerankWithWeights(cfg.rrf_k, <<vec.result, kw.result>>,
                                 <<cfg.vector_weight, cfg.keyword_weight>>, top_k)
    IN  IF kw.error # "" THEN failed(kw.error, vec.result, <<>>)
        ELSE IF rrf.error # "" THEN failed(rrf.error, vec.result, kw.result)
        ELSE [error |-> "", vector_results |-> vec.result,
              keyword_results |-> kw.result, fused |-> rrf.result]

\* EnhancedHybridRetriever.search, lines 333-340: dense search, keyword
\* search and fusion, in this order; the first exception ends the call
Retrieve(self, cfg, seed, query, top_k, backend) ==
    LET failed(e, v, kw) ==
            [error |-> e, vector_results |-> v, keyword_results |-> kw, fused |-> <<>>]
        vec == VecSearch(seed, backend)
        kw == KeywordSearch(self, query, top_k)
        rrf == RerankWithWeights(cfg.rrf_k, <<vec.result, kw.result>>,
                                 <<cfg.vector_weight, cfg.keyword_weight>>, top_k)
    IN  IF vec.error # "" THEN failed(vec.error, <<>>, <<>>)
        ELSE IF kw.error # "" THEN failed(kw.error, vec.result, <<>>)
        ELSE IF rrf.error # "" THEN failed(rrf.error, vec.result, kw.result)
        ELSE [error |-> "", vector_results |-> vec.result,
              keyword_results |-> kw.result, fused |-> rrf.result]

\* line 342: the external reranker is called
CallsReranker(reranker, retrieved) ==
    retrieved.error = "" /\ reranker # "None" /\ retrieved.fused # <<>>

\* EnhancedHybridRetriever.search, lines 341-344
Finish(reranker, retrieved, top_k, remote) ==
    IF retrieved.error # "" THEN [error |-> retrieved.error, result |-> <<>>]
    ELSE IF CallsReranker(reranker, retrieved)
    THEN ExternalRerank(retrieved.fused, top_k, remote)
    ELSE [error |-> "", result |-> retrieved.fused]

\* max(scores), line 367, of the results from result i on
RECURSIVE MaxScore(_, _, _)
MaxScore(results, i, best) ==
    IF i > Len(results) THEN best
    ELSE MaxScore(results, i + 1,
                  IF RLess(best, results[i].score) THEN results[i].score ELSE best)

\* extract_top_score, lines 365-367, and the entry of stats it gives under
\* `key`: none when no result has a score
TopScoreStat(key, results) ==
    LET scored == SelectSeq(results, LAMBDA r: "score" \in DOMAIN r)
    IN  IF scored = <<>> THEN <<>>
        ELSE [f \in {key} |-> MaxScore(scored, 2, scored[1].score)]

WithScoresTruncated(query, vector_results, keyword_results, reranked_results) ==
    [query |-> query,
     vector_results_count |-> Len(vector_results),
     keyword_results_count |-> Len(keyword_results),
     reranked_results |-> Take(reranked_results, 1),
     retrieval_stats |->
        [rrf_top_score |->
            IF reranked_results # <<>>
            THEN Get(reranked_results[1], "weighted_rrf_score", RZero) ELSE RZero]]

\* search_with_scores, lines 369-385: the dictionary returned
WithScores(query, vector_results, keyword_results, reranked_results) ==
    [query |-> query,
     vector_results_count |-> Len(vector_results),
     keyword_results_count |-> Len(keyword_results),
     reranked_results |-> reranked_results,
     retrieval_stats |->
        TopScoreStat("vector_top_score", vector_results)
        @@ TopScoreStat("keyword_top_score", keyword_results)
        @@ [rrf_top_score |->
                IF reranked_results # <<>>
                THEN Get(reranked_results[1], "weighted_rrf_score", RZero) ELSE RZero]]

\* what the backend does with the second dense search of one
\* search_with_scores, the first one having got `first`: the same, nothing,
\* or it fails
SecondBehaviours(first) ==
    {first, [raises |-> FALSE, records |-> <<>>], [raises |-> TRUE, records |-> <<>>]}

\* KeywordRetriever(): no documents, nothing indexed
EmptyRetriever ==
    [documents |-> <<>>, document_terms |-> <<>>, doc_lengths |-> <<>>,
     term_doc_freq |-> EmptyFreq, avg_doc_length |-> RZero]

\* RetrievalManager._initialize_keyword_retriever: add_documents under
\* try/except, so a failed build leaves what it had reached
InitializeKeywordRetriever(docs) ==
    IF docs = <<>> THEN EmptyRetriever ELSE AddDocumentsTo(EmptyRetriever, docs).self

BuildRerankerUncaught(enable_reranking, api_key, pinecone_installed, client_ok) ==
    IF ~enable_reranking \/ Strip(api_key) = <<>>
    THEN [external_reranker |-> "None", reranker_init |-> "skipped", error |-> "",
          propagates |-> FALSE]
    ELSE
        LET e == RerankerInit(pinecone_installed, Strip(api_key), client_ok)
        IN  IF e # ""
            THEN [external_reranker |-> "None", reranker_init |-> "raised", error |-> e,
                  propagates |-> TRUE]
            ELSE [external_reranker |-> "Pinecone", reranker_init |-> "built",
                  error |-> "", propagates |-> FALSE]

\* RetrievalManager.__init__, lines 80-91: the reranker is built only when
\* enabled and the stripped key is not empty, and a failure to build it is
\* caught (except Exception), so it never propagates
BuildReranker(enable_reranking, api_key, pinecone_installed, client_ok) ==
    IF ~enable_reranking \/ Strip(api_key) = <<>>
    THEN [external_reranker |-> "None", reranker_init |-> "skipped", error |-> "",
          propagates |-> FALSE]
    ELSE
        LET e == RerankerInit(pinecone_installed, Strip(api_key), client_ok)
        IN  IF e # ""
            THEN [external_reranker |-> "None", reranker_init |-> "raised", error |-> e,
                  propagates |-> FALSE]
            ELSE [external_reranker |-> "Pinecone", reranker_init |-> "built",
                  error |-> "", propagates |-> FALSE]

\* RetrievalManager.__init__: it ends with an exception only if one
\* propagates out of the construction of the reranker
ManagerInit(enable_reranking, api_key, pinecone_installed, client_ok) ==
    LET b == BuildReranker(enable_reranking, api_key, pinecone_installed, client_ok)
    IN  [status |-> IF b.propagates THEN "raised" ELSE "constructed",
         external_reranker |-> b.external_reranker,
         reranker_init |-> b.reranker_init, error |-> b.error]

ApiKeys == {<<>>, <<" ">>, <<"pk">>}

\* the document files the manager is started on
LoadedCorpora ==
    {<<>>, <<DocBlank>>, <<Doc1, Doc2, Doc3>>, <<Doc2, Doc4, Doc1>>,
     <<Doc4, Doc2, Doc3>>, <<Doc2, Doc2, Doc1>>, <<Doc1, DocMalformed>>}

NoCall == [op |-> "none", error |-> "", result |-> <<>>]
Idle == [pc |-> "idle"]

SetIndex(self) ==
    /\ documents' = self.documents
    /\ document_terms' = self.document_terms
    /\ doc_lengths' = self.doc_lengths
    /\ term_doc_freq' = self.term_doc_freq
    /\ avg_doc_length' = self.avg_doc_length

-----------------------------------------------------------------------------
(* The retrieval manager: constructed, then queried.                       *)

\* RetrievalManager.__init__ in a process whose hash seed is `seed`, on the
\* documents of corpora[seed], with a configuration of `configs`
Constructed(corpora, configs) ==
    \E seed \in HashSeeds, cfg \in configs, enable \in BOOLEAN,
       key \in ApiKeys, installed \in BOOLEAN, client_ok \in BOOLEAN :
      \E docs \in corpora[seed] :
        LET kr == InitializeKeywordRetriever(docs)
            m == ManagerInit(enable, key, installed, client_ok)
        IN  /\ documents = kr.documents
            /\ document_terms = kr.document_terms
            /\ doc_lengths = kr.doc_lengths
            /\ term_doc_freq = kr.term_doc_freq
            /\ avg_doc_length = kr.avg_doc_length
            /\ config = cfg
            /\ external_reranker = m.external_reranker
            /\ manager = [status |-> m.status, reranker_init |-> m.reranker_init,
                          error |-> m.error]
            /\ hash_seed = seed
            /\ call = NoCall
            /\ writer = Idle
            /\ reader = Idle

Init == Constructed([seed \in HashSeeds |-> LoadedCorpora], Configs)

\* RetrievalManager.search -> EnhancedHybridRetriever.search.  The manager is
\* called synchronously: a call starts when the previous one has returned.
Search(query, top_k, backend) ==
    /\ manager.status = "constructed"
    /\ call.op = "none"
    /\ SetIndex(IF backend.raises THEN Self ELSE AfterSearch(Self, query))
    /\ UNCHANGED <<config, external_reranker, manager, hash_seed, writer, reader>>
    /\ \E retrieved \in {Retrieve(Self, config, hash_seed, query, top_k, backend)} :
       \E lists \in {<<retrieved.vector_results, retrieved.keyword_results>>} :
       \E lists_after \in {AfterWrites(lists, OutputWrites(lists, retrieved.fused), 1)} :
       \E remote \in (IF CallsReranker(external_reranker, retrieved)
                      THEN RemoteBehaviours(Len(retrieved.fused))
                      ELSE {NoRemote}) :
       \E r \in {Finish(external_reranker, retrieved, top_k, remote)} :
            call' = [op |-> "search", query |-> query, top_k |-> top_k,
                     dense_failed |-> backend.raises,
                     vector_results |-> retrieved.vector_results,
                     keyword_results |-> retrieved.keyword_results,
                     fused |-> retrieved.fused, remote |-> remote,
                     lists_after |-> lists_after,
                     fused_after |->
                        AfterWrites(<<retrieved.fused>>,
                                    RerankWrites(retrieved.fused, remote.data), 1)[1],
                     error |-> r.error, result |-> r.result]

\* the caller takes the result (or the exception) of the call
Return ==
    /\ call.op # "none"
    /\ call' = NoCall
    /\ UNCHANGED <<index, config, external_reranker, manager, hash_seed, writer, reader>>

\* RetrievalManager.search_with_scores ->
\* EnhancedHybridRetriever.search_with_scores: a dense search and a keyword
\* search for the counts and top scores (lines 358-359), then search (line
\* 362), which does both again; the first exception ends the call.
SearchWithScores(query, top_k, first, backend) ==
    /\ manager.status = "constructed"
    /\ call.op = "none"
    /\ \E vec \in {VecSearch(hash_seed, first)} :
       \E kw \in {IF vec.error # "" THEN [error |-> vec.error, result |-> <<>>]
                  ELSE KeywordSearch(Self, query, top_k)} :
       \E retrieved \in {IF kw.error # ""
                         THEN [error |-> kw.error, vector_results |-> <<>>,
                               keyword_results |-> <<>>, fused |-> <<>>]
                         ELSE Retrieve(Self, config, hash_seed, query, top_k, backend)} :
       \E remote \in (IF CallsReranker(external_reranker, retrieved)
                      THEN RemoteBehaviours(Len(retrieved.fused))
                      ELSE {NoRemote}) :
       \E r \in {Finish(external_reranker, retrieved, top_k, remote)} :
            call' = [op |-> "search_with_scores", query |-> query, top_k |-> top_k,
                     dense_failed |-> first.raises \/ (kw.error = "" /\ backend.raises),
                     vector_results |-> retrieved.vector_results,
                     keyword_results |-> retrieved.keyword_results,
                     fused |-> retrieved.fused, remote |-> remote,
                     error |-> r.error,
                     result |-> IF r.error # "" THEN <<>>
                                ELSE WithScores(query, vec.result, kw.result, r.result)]
    /\ SetIndex(IF first.raises THEN Self ELSE AfterSearch(Self, query))
    /\ UNCHANGED <<config, external_reranker, manager, hash_seed, writer, reader>>

Next ==
    \/ \E query \in Queries, top_k \in TopKs, backend \in BackendBehaviours :
        Search(query, top_k, backend)
    \/ Return

Spec == Init /\ [][Next]_vars

-----------------------------------------------------------------------------
(* The retrieval manager with both of its entry points, search and         *)
(* search_with_scores, on the configuration RAGConfig has by default.      *)

ScoresCorpora == {<<>>, <<Doc2, Doc4, Doc1>>, <<Doc1, DocMalformed>>}

RAGConfigDefaults ==
    {[rrf_k |-> 20, vector_weight |-> Rat(1, 2), keyword_weight |-> Rat(1, 2)]}

ScoresInit == Constructed([seed \in HashSeeds |-> ScoresCorpora], RAGConfigDefaults)

ScoresNext ==
    \/ \E query \in Queries, top_k \in TopKs, backend \in BackendBehaviours :
        Search(query, top_k, backend)
    \/ \E query \in Queries, top_k \in TopKs, first \in BackendBehaviours :
        \E backend \in SecondBehaviours(first) :
            SearchWithScores(query, top_k, first, backend)
    \/ Return

SpecScores == ScoresInit /\ [][ScoresNext]_vars

-----------------------------------------------------------------------------
(* The keyword retriever on its own: built up by add_documents, queried by *)
(* search.                                                                 *)

\* KeywordRetriever.__init__ on a list of well-formed documents: the index
\* is built when the list is not empty
Construct(docs) ==
    IF docs = <<>> THEN EmptyRetriever
    ELSE BuildIndex([EmptyRetriever EXCEPT !.documents = docs]).self

\* the lists the retriever is constructed with: none, and five documents two
\* of which have the same content
InitialCorpora == {<<>>, <<Doc2, Doc2, Doc1, Doc3, Doc4>>}

IndexInit ==
    /\ \E docs \in InitialCorpora :
        \E kr \in {Construct(docs)} :
            /\ documents = kr.documents
            /\ document_terms = kr.document_terms
            /\ doc_lengths = kr.doc_lengths
            /\ term_doc_freq = kr.term_doc_freq
            /\ avg_doc_length = kr.avg_doc_length
    /\ config = DefaultConfig
    /\ external_reranker = "None"
    /\ manager = [status |-> "absent", reranker_init |-> "skipped", error |-> ""]
    /\ hash_seed = 0
    /\ call = NoCall
    /\ writer = Idle
    /\ reader = Idle

\* KeywordRetriever.add_documents
AddDocuments(batch) ==
    LET r == AddDocumentsTo(Self, batch)
    IN  /\ call.op = "none"
        /\ Len(documents) + Len(batch) <= MaxDocs
        /\ SetIndex(r.self)
        /\ call' = [op |-> "add_documents", batch |-> batch, before |-> Self,
                    error |-> IF r.raised THEN "KeyError" ELSE "", result |-> <<>>]
        /\ UNCHANGED <<config, external_reranker, manager, hash_seed, writer, reader>>

\* KeywordRetriever.search
KwSearch(query, top_k) ==
    LET r == KeywordSearch(Self, query, top_k)
    IN  /\ call.op = "none"
        /\ call' = [op |-> "kw_search", query |-> query, top_k |-> top_k,
                    before |-> Self, error |-> r.error, result |-> r.result]
        /\ SetIndex(AfterSearch(Self, query))
        /\ UNCHANGED <<config, external_reranker, manager, hash_seed, writer, reader>>

IndexNext ==
    \/ \E batch \in Batches : AddDocuments(batch)
    \/ \E query \in Queries, top_k \in TopKs : KwSearch(query, top_k)
    \/ Return

SpecIndex == IndexInit /\ [][IndexNext]_vars

-----------------------------------------------------------------------------
(* RAGChatAgent: retrieval, context and sources, the language model.  A    *)
(* text built with an f-string is the record of its parts.                 *)

\* f"{x:.3f}" for x >= 0: thousandths, rounded half to even
Round3(x) ==
    LET q == (x.n * 1000) \div x.d
        r == (x.n * 1000) % x.d
    IN  IF 2 * r > x.d THEN q + 1
        ELSE IF 2 * r = x.d THEN q + (q % 2)
        ELSE q

\* RAGChatAgent._format_score_info
FormatScoreInfo(doc) ==
    IF "weighted_rrf_score" \in DOMAIN doc
    THEN [rrf |-> Round3(doc.weighted_rrf_score)]
    ELSE IF "rrf_score" \in DOMAIN doc THEN [rrf |-> Round3(doc.rrf_score)]
    ELSE <<>>

\* a is a part of b (`a in b` for strings, word by word here)
Infix(a, b) ==
    \E i \in 0..(Len(b) - Len(a)) : SubSeq(b, i + 1, i + Len(a)) = a

\* DocumentManager.reconstruct_source_info on the OCR file `ocr_data` (no
\* item when the file is missing or unreadable); a text of the model is
\* shorter than the 100 characters of the partial match, which is then the
\* exact match
RECURSIVE ReconstructSourceInfo(_, _, _)
ReconstructSourceInfo(ocr_data, content, i) ==
    IF i > Len(ocr_data) THEN <<>>
    ELSE IF "null_text" \in DOMAIN ocr_data[i] THEN <<>>
    ELSE
        LET item_text == Strip(Get(ocr_data[i], "text", <<>>))
        IN  IF item_text # <<>> /\ Infix(item_text, Strip(content))
            THEN [page_idx |-> Get(ocr_data[i], "page_idx", 0)]
            ELSE ReconstructSourceInfo(ocr_data, content, i + 1)

\* lines 308-335 and 387-423: page and chunk of a document: from its
\* metadata, else from the name of its source (no source of the model has a
\* _chNofM suffix), else from `reconstructed`
MetaParts(doc, source, reconstructed) ==
    LET m == Get(doc, "metadata", <<>>)
        meta == IF m = <<>> THEN [x \in {} |-> 0] ELSE m
        page == IF "page_idx" \in DOMAIN meta THEN [page_idx |-> meta.page_idx]
                ELSE IF PageMeta(source) # <<>> THEN PageMeta(source)
                ELSE reconstructed
        chunk == IF {"chunk_index", "chunk_count"} \subseteq DOMAIN meta
                 THEN [chunk_index |-> meta.chunk_index, chunk_count |-> meta.chunk_count]
                 ELSE <<>>
    IN  page @@ chunk

\* RAGChatAgent._build_context: one part per document, joined; no document,
\* the empty string
BuildContext(retrieved_docs) ==
    [i \in DOMAIN retrieved_docs |->
        LET doc == retrieved_docs[i]
            source == Get(doc, "file_name", <<"weizhi laiyuan">>)
        IN  [n |-> i, score_info |-> FormatScoreInfo(doc), source |-> source,
             meta |-> MetaParts(doc, source, <<>>),
             content |-> Get(doc, "content", <<>>)]]

\* RAGChatAgent._create_user_prompt
CreateUserPrompt(context, question) ==
    IF context # <<>>
    THEN [kind |-> "context", context |-> context, question |-> question]
    ELSE [kind |-> "no context", question |-> question]

\* what the language model does with one prompt
LlmBehaviours == {[raises |-> TRUE, answer |-> <<>>],
                  [raises |-> FALSE, answer |-> <<"huida">>]}

\* RAGChatAgent._ask_llm
AskLlm(user_prompt, llm) ==
    IF llm.raises THEN [error |-> "LLMError", answer |-> <<>>]
    ELSE [error |-> "", answer |-> llm.answer]

\* the names that stand for no source, line 375
InvalidSources == {<<>>, <<"unknown">>, <<"N/A">>, <<"wu neirong">>, <<"weizhi laiyuan">>}

\* lines 372-382: the name of the source, or the content for want of one
SourcePreview(doc) ==
    LET name == Strip(Get(doc, "file_name", <<>>))
        content_fallback == Strip(Get(doc, "content", <<>>))
    IN  IF name \notin InvalidSources THEN name
        ELSE IF content_fallback # <<>> THEN content_fallback
        ELSE <<"weizhi laiyuan">>

\* RAGChatAgent._extract_sources: one entry per document
ExtractSources(retrieved_docs, ocr_data) ==
    [i \in DOMAIN retrieved_docs |->
        LET doc == retrieved_docs[i]
            source_preview == SourcePreview(doc)
        IN  [n |-> i, source |-> source_preview,
             meta |-> MetaParts(doc, source_preview,
                        ReconstructSourceInfo(ocr_data, Get(doc, "content", <<>>), 1)),
             content |-> Strip(Get(doc, "content", <<>>))]]

\* lines 213-217 and 275-278: the largest score of the documents that have
\* one; query looks for it only when the first document has a score
TopScoreOf(retrieved_docs, first_only) ==
    IF retrieved_docs = <<>> THEN <<>>
    ELSE IF first_only /\ "score" \notin DOMAIN retrieved_docs[1] THEN <<>>
    ELSE TopScoreStat("vector_top_score", retrieved_docs)

\* f"... {str(e)}": the answer of a call that has failed
ErrorText(e) == <<"chuli chaxun shi chuxian cuowu", e>>

\* lines 199-218 and 260-279: what follows retrieval inside the try block:
\* context, prompt, answer, sources and the dictionary
Answer(retrieved_docs, question, llm, ocr_data, first_only) ==
    LET context == BuildContext(retrieved_docs)
        sources == ExtractSources(retrieved_docs, ocr_data)
        asked == AskLlm(CreateUserPrompt(context, question), llm)
    IN  IF asked.error # "" THEN [error |-> asked.error, result |-> <<>>]
        ELSE [error |-> "",
              result |-> [answer |-> asked.answer, context |-> context,
                          sources |-> sources, question |-> question]
                         @@ TopScoreOf(retrieved_docs, first_only)]

AgentQueryRetrievalOnly(retrieved, question, llm, ocr_data) ==
    IF retrieved.error # ""
    THEN [error |-> "",
          result |-> [answer |-> ErrorText(retrieved.error), context |-> <<>>,
                      sources |-> <<>>, question |-> question]]
    ELSE
        LET done == Answer(retrieved.result, question, llm, ocr_data, TRUE)
        IN  IF done.error # ""
            THEN [error |-> "",
                  result |-> [answer |-> ErrorText(done.error),
                              context |-> BuildContext(retrieved.result),
                              sources |-> ExtractSources(retrieved.result, ocr_data),
                              question |-> question]]
            ELSE done

\* RAGChatAgent.query on what retrieval gave: `except Exception` (lines
\* 220-226) takes every failure of the try block
AgentQuery(retrieved, question, llm, ocr_data) ==
    LET done == IF retrieved.error # "" THEN [error |-> retrieved.error, result |-> <<>>]
                ELSE Answer(retrieved.result, question, llm, ocr_data, TRUE)
    IN  IF done.error # ""
        THEN [error |-> "",
              result |-> [answer |-> ErrorText(done.error), context |-> <<>>,
                          sources |-> <<>>, question |-> question]]
        ELSE done

\* RAGChatAgent.query_with_stats on what search_with_scores gave
AgentQueryWithStats(detailed, question, llm, ocr_data) ==
    LET done == IF detailed.error # "" THEN [error |-> detailed.error, result |-> <<>>]
                ELSE Answer(detailed.result.reranked_results, question, llm,
                            ocr_data, FALSE)
    IN  IF done.error # ""
        THEN [error |-> "",
              result |-> [answer |-> ErrorText(done.error), context |-> <<>>,
                          sources |-> <<>>, question |-> question,
                          retrieval_stats |-> <<>>, vector_results_count |-> 0,
                          keyword_results_count |-> 0]]
        ELSE [error |-> "",
              result |-> done.result
                         @@ [retrieval_stats |-> detailed.result.retrieval_stats,
                             vector_results_count |-> detailed.result.vector_results_count,
                             keyword_results_count |-> detailed.result.keyword_results_count]]

\* DocumentManager.load_documents_from_json, lines 43-55, from record i on:
\* a record without text is skipped, a text seen before (by its hash) is
\* skipped, and the source of a document is named after its page and type
RECURSIVE LoadDocumentsLoop(_, _, _, _, _)
LoadDocumentsLoop(seed, data, i, seen_hashes, docs) ==
    IF i > Len(data) THEN docs
    ELSE
        LET item == data[i]
            text == IF "null_text" \in DOMAIN item THEN <<>>
                    ELSE Strip(Get(item, "text", <<>>))
            h == Hash(seed, text)
            source == SourceName(Get(item, "page_idx", 0), Get(item, "type", "text"))
        IN  IF text = <<>> \/ h \in seen_hashes
            THEN LoadDocumentsLoop(seed, data, i + 1, seen_hashes, docs)
            ELSE LoadDocumentsLoop(seed, data, i + 1, seen_hashes \cup {h},
                                   Append(docs, [content |-> text, source |-> source]))

\* DocumentManager.load_documents_from_json: no document when the file
\* cannot be read
LoadDocumentsFromJson(seed, file) ==
    IF ~file.exists THEN <<>> ELSE LoadDocumentsLoop(seed, file.data, 1, {}, <<>>)

\* the OCR file at config.ocr_data_path: missing, or with three records that
\* have a text (one a second time), a blank one, one without a text and one
\* whose text is null
OcrFiles ==
    {[exists |-> FALSE, data |-> <<>>],
     [exists |-> TRUE,
      data |-> <<[text |-> Doc2.content, page_idx |-> 5],
                 [text |-> <<" ">> \o Doc4.content, page_idx |-> 6, type |-> "title"],
                 [text |-> Doc1.content],
                 [text |-> <<" ">>, page_idx |-> 1],
                 [text |-> Doc2.content, page_idx |-> 8],
                 [page_idx |-> 7],
                 [null_text |-> TRUE]>>]}

\* the corpora the agent is started on: what the document manager loads from
\* the file, in a process whose hash seed is `seed`
AgentCorpora ==
    [seed \in HashSeeds |-> {LoadDocumentsFromJson(seed, file) : file \in OcrFiles}]

\* the questions asked: one with terms of the corpus, one without any term
Questions == {<<"jiage", "gdp">>, <<"de", "!">>}

AgentInit == Constructed(AgentCorpora, RAGConfigDefaults)

\* RAGChatAgent.query
Query(question, top_k, backend, llm, ocr_data) ==
    /\ manager.status = "constructed"
    /\ call.op = "none"
    /\ \E retrieved \in {Retrieve(Self, config, hash_seed, question, top_k, backend)} :
        \E remote \in (IF CallsReranker(external_reranker, retrieved)
                       THEN RemoteBehaviours(Len(retrieved.fused))
                       ELSE {NoRemote}) :
        \E found \in {Finish(external_reranker, retrieved, top_k, remote)} :
        \E r \in {AgentQuery(found, question, llm, ocr_data)} :
            call' = [op |-> "query", question |-> question, top_k |-> top_k,
                     retrieved_docs |-> found.result,
                     retrieval_error |-> found.error, llm_raises |-> llm.raises,
                     error |-> r.error, result |-> r.result]
    /\ SetIndex(IF backend.raises THEN Self ELSE AfterSearch(Self, question))
    /\ UNCHANGED <<config, external_reranker, manager, hash_seed, writer, reader>>

\* RAGChatAgent.query_with_stats
QueryWithStats(question, top_k, first, backend, llm, ocr_data) ==
    /\ manager.status = "constructed"
    /\ call.op = "none"
    /\ \E vec \in {VecSearch(hash_seed, first)} :
       \E kw \in {IF vec.error # "" THEN [error |-> vec.error, result |-> <<>>]
                  ELSE KeywordSearch(Self, question, top_k)} :
       \E retrieved \in {IF kw.error # ""
                         THEN [error |-> kw.error, vector_results |-> <<>>,
                               keyword_results |-> <<>>, fused |-> <<>>]
                         ELSE Retrieve(Self, config, hash_seed, question, top_k, backend)} :
       \E remote \in (IF CallsReranker(external_reranker, retrieved)
                      THEN RemoteBehaviours(Len(retrieved.fused))
                      ELSE {NoRemote}) :
       \E found \in {Finish(external_reranker, retrieved, top_k, remote)} :
       \E detailed \in {IF found.error # "" THEN found
                        ELSE [error |-> "",
                              result |-> WithScores(question, vec.result, kw.result,
                                                    found.result)]} :
       \E r \in {AgentQueryWithStats(detailed, question, llm, ocr_data)} :
            call' = [op |-> "query_with_stats", question |-> question, top_k |-> top_k,
                     retrieved_docs |-> found.result,
                     retrieval_error |-> found.error, llm_raises |-> llm.raises,
                     error |-> r.error, result |-> r.result]
    /\ SetIndex(IF first.raises THEN Self ELSE AfterSearch(Self, question))
    /\ UNCHANGED <<config, external_reranker, manager, hash_seed, writer, reader>>

AgentNext ==
    \/ \E question \in Questions, top_k \in TopKs, backend \in BackendBehaviours,
          llm \in LlmBehaviours, file \in OcrFiles :
        Query(question, top_k, backend, llm, file.data)
    \/ \E question \in Questions, top_k \in TopKs, first \in BackendBehaviours,
          llm \in LlmBehaviours, file \in OcrFiles :
        \E backend \in SecondBehaviours(first) :
            QueryWithStats(question, top_k, first, backend, llm, file.data)
    \/ Return

SpecAgent == AgentInit /\ [][AgentNext]_vars

-----------------------------------------------------------------------------
(* DataLoader: the records of an OCR file, split, de-duplicated and saved. *)

\* the ASCII marks of the pattern of _split_sentences, line 162
SentenceEnds == {"!", "?", ";", ":"}

\* DataLoader._split_sentences from word i on: a sentence is a non-blank
\* segment with the mark that ends it
RECURSIVE SplitLoop(_, _, _, _)
SplitLoop(text, i, seg, sentences) ==
    IF i > Len(text)
    THEN (IF Strip(seg) # <<>> THEN Append(sentences, Strip(seg)) ELSE sentences)
    ELSE IF text[i] \in SentenceEnds
    THEN SplitLoop(text, i + 1, <<>>,
                   IF Strip(seg) # <<>>
                   THEN Append(sentences, Append(Strip(seg), text[i]))
                   ELSE sentences)
    ELSE SplitLoop(text, i + 1, Append(seg, text[i]), sentences)

SplitSentences(text) == SplitLoop(text, 1, <<>>, <<>>)

\* records of an OCR file: two sentences, a text that is the second of them,
\* a text that is the first, a blank text, and a record whose text is null
ItemA == [text |-> <<"jiazhi", "!", "jiage">>, page_idx |-> 3, type |-> "text"]
ItemB == [text |-> <<"jiage">>]
ItemC == [text |-> <<"jiazhi", "!">>, page_idx |-> 7, type |-> "title"]
ItemBlank == [text |-> <<" ">>, page_idx |-> 1]
ItemNull == [null_text |-> TRUE]

OcrItems == {ItemA, ItemB, ItemC, ItemBlank, ItemNull}

\* the file at json_file_path: missing, or a list of records
JsonFiles ==
    {[exists |-> FALSE, data |-> <<>>]}
    \cup {[exists |-> TRUE, data |-> d] : d \in SeqsUpTo(OcrItems, 0, MaxRecords)}

\* the save_text calls of one load that raise, by their number
SaveFailures == SUBSET (1..MaxSaves)

\* lines 71-74: the chunks of a text
ChunksOf(text, chunking) ==
    IF chunking = "sentence" THEN SplitSentences(text) ELSE <<text>>

\* lines 85-118: the chunks of one record from chunk ci on; a save_text
\* that raises ends the record
RECURSIVE LoadChunks(_, _, _, _, _, _, _, _)
LoadChunks(seed, enable_dedup, chunking, failing, i, item, ci, st) ==
    LET chunks == ChunksOf(Strip(item.text), chunking)
        total_chunks == Len(chunks)
    IN  IF ci > total_chunks THEN st
        ELSE
            LET chunk_clean == Strip(chunks[ci])
                h == Hash(seed, chunk_clean)
                number == Len(st.attempts) + 1
                page_idx == Get(item, "page_idx", 0)
                text_type == Get(item, "type", "text")
                attempt ==
                    [item |-> i, text |-> chunk_clean,
                     source_file |->
                        [page_idx |-> page_idx, type |-> text_type,
                         chunk |-> IF total_chunks > 1 THEN <<ci, total_chunks>> ELSE <<>>],
                     payload_extra |->
                        [page_idx |-> page_idx, type |-> text_type, chunk_index |-> ci,
                         chunk_count |-> total_chunks, chunking |-> chunking,
                         chunk_size |-> 300, overlap |-> 50]]
            IN  IF chunk_clean = <<>>
                THEN LoadChunks(seed, enable_dedup, chunking, failing, i, item, ci + 1, st)
                ELSE IF enable_dedup /\ h \in st.seen_texts
                THEN LoadChunks(seed, enable_dedup, chunking, failing, i, item, ci + 1,
                                [st EXCEPT !.duplicate_count = @ + 1])
                ELSE
                    LET seen == IF enable_dedup THEN st.seen_texts \cup {h}
                                ELSE st.seen_texts
                    IN  IF number \in failing
                        THEN [st EXCEPT !.seen_texts = seen,
                                        !.attempts = Append(@, attempt @@ [ok |-> FALSE])]
                        ELSE LoadChunks(seed, enable_dedup, chunking, failing, i, item, ci + 1,
                                [st EXCEPT !.seen_texts = seen,
                                           !.attempts = Append(@, attempt @@ [ok |-> TRUE]),
                                           !.success_count = @ + 1])

\* lines 60-126: the records from record i on; an exception in one record
\* is caught and the loop goes on with the next
RECURSIVE LoadItems(_, _, _, _, _, _, _)
LoadItems(seed, enable_dedup, chunking, failing, ocr_data, i, st) ==
    IF i > Len(ocr_data) THEN st
    ELSE
        LET item == ocr_data[i]
        IN  IF "null_text" \in DOMAIN item
            THEN LoadItems(seed, enable_dedup, chunking, failing, ocr_data, i + 1, st)
            ELSE IF Strip(Get(item, "text", <<>>)) = <<>>
            THEN LoadItems(seed, enable_dedup, chunking, failing, ocr_data, i + 1, st)
            ELSE LoadItems(seed, enable_dedup, chunking, failing, ocr_data, i + 1,
                    LoadChunks(seed, enable_dedup, chunking, failing, i,
                               [item EXCEPT !.text = Strip(@)], 1, st))

\* DataLoader.load_ocr_data
LoadOcrDataOf(seed, file, enable_dedup, chunking, failing) ==
    IF ~file.exists
    THEN [error |-> "FileNotFoundError", attempts |-> <<>>, duplicate_count |-> 0,
          result |-> 0]
    ELSE
        LET st == LoadItems(seed, enable_dedup, chunking, failing, file.data, 1,
                            [seen_texts |-> {}, attempts |-> <<>>,
                             success_count |-> 0, duplicate_count |-> 0])
        IN  [error |-> "", attempts |-> st.attempts,
             duplicate_count |-> st.duplicate_count, result |-> st.success_count]

LoaderInit ==
    /\ documents = EmptyRetriever.documents
    /\ document_terms = EmptyRetriever.document_terms
    /\ doc_lengths = EmptyRetriever.doc_lengths
    /\ term_doc_freq = EmptyRetriever.term_doc_freq
    /\ avg_doc_length = EmptyRetriever.avg_doc_length
    /\ config = DefaultConfig
    /\ external_reranker = "None"
    /\ manager = [status |-> "absent", reranker_init |-> "skipped", error |-> ""]
    /\ hash_seed \in HashSeeds
    /\ call = NoCall
    /\ writer = Idle
    /\ reader = Idle

\* one load: the texts it hands to save_text are the `attempts` of the call
LoadOcrData(file, enable_dedup, chunking, failing) ==
    LET r == LoadOcrDataOf(hash_seed, file, enable_dedup, chunking, failing)
    IN  /\ call.op = "none"
        /\ call' = [op |-> "load_ocr_data", ocr_data |-> file.data,
                    enable_dedup |-> enable_dedup, chunking |-> chunking,
                    failing |-> failing, attempts |-> r.attempts,
                    duplicate_count |-> r.duplicate_count,
                    error |-> r.error, result |-> r.result]
        /\ UNCHANGED <<index, config, external_reranker, manager, hash_seed, writer, reader>>

LoaderNext ==
    \/ \E file \in JsonFiles, enable_dedup \in BOOLEAN,
          chunking \in {"sentence", "none"}, failing \in SaveFailures :
        LoadOcrData(file, enable_dedup, chunking, failing)
    \/ Return

SpecLoader == LoaderInit /\ [][LoaderNext]_vars

-----------------------------------------------------------------------------
(* The dense-search adapter on its own: a process with some hash seed, and *)
(* a backend that answers every query as it likes.                         *)

VecInit ==
    /\ documents = EmptyRetriever.documents
    /\ document_terms = EmptyRetriever.document_terms
    /\ doc_lengths = EmptyRetriever.doc_lengths
    /\ term_doc_freq = EmptyRetriever.term_doc_freq
    /\ avg_doc_length = EmptyRetriever.avg_doc_length
    /\ config = DefaultConfig
    /\ external_reranker = "None"
    /\ manager = [status |-> "absent", reranker_init |-> "skipped", error |-> ""]
    /\ hash_seed \in HashSeeds
    /\ call = NoCall
    /\ writer = Idle
    /\ reader = Idle

\* VecRetriever.search
VecQuery(question, top_k, backend) ==
    LET r == VecSearch(hash_seed, backend)
    IN  /\ call.op = "none"
        /\ call' = [op |-> "vec_search", question |-> question, top_k |-> top_k,
                    raises |-> backend.raises, raw_results |-> backend.records,
                    error |-> r.error, result |-> r.result]
        /\ UNCHANGED <<index, config, external_reranker, manager, hash_seed, writer, reader>>

VecNext ==
    \/ \E question \in Queries, top_k \in TopKs, backend \in Behaviours(VecRawPool) :
        VecQuery(question, top_k, backend)
    \/ Return

SpecVec == VecInit /\ [][VecNext]_vars

-----------------------------------------------------------------------------
(* The RRF reranker on its own: rerank_with_weights called with any number *)
(* of lists and of weights.                                                *)

\* results as the two retrievers return them: two of the same content, one
\* without a score.  KwA is the entry of Doc1 in the keyword search for
\* jiazhi on the corpus Doc2, Doc4, Doc1, and KwC the entry of Doc4 in the
\* search for jiage gdp on it (the second of two entries of the same score).
VecA == Normalize(Raw1)
VecB == Normalize(Raw2b)
KwA == KeywordSearch(Construct(<<Doc2, Doc4, Doc1>>), <<"jiazhi">>, MaxTopK).result[1]
KwC == KeywordSearch(Construct(<<Doc2, Doc4, Doc1>>), <<"jiage", "gdp">>, MaxTopK).result[2]

FusionLists ==
    {<<>>, <<VecA>>, <<VecB, KwA>>, <<VecA, VecB, KwC>>, <<KwC, KwA>>, <<VecA, KwA>>}

FusionWeights == {RInt(1), Rat(7, 10)}

\* RRFReranker(k)
FusionInit ==
    /\ documents = EmptyRetriever.documents
    /\ document_terms = EmptyRetriever.document_terms
    /\ doc_lengths = EmptyRetriever.doc_lengths
    /\ term_doc_freq = EmptyRetriever.term_doc_freq
    /\ avg_doc_length = EmptyRetriever.avg_doc_length
    /\ config \in Configs
    /\ external_reranker = "None"
    /\ manager = [status |-> "absent", reranker_init |-> "skipped", error |-> ""]
    /\ hash_seed = 0
    /\ call = NoCall
    /\ writer = Idle
    /\ reader = Idle

\* RRFReranker.rerank_with_weights
Rerank(result_lists, weights, top_k) ==
    LET r == RerankWithWeights(config.rrf_k, result_lists, weights, top_k)
    IN  /\ call.op = "none"
        /\ call' = [op |-> "rerank_with_weights", result_lists |-> result_lists,
                    weights |-> weights, top_k |-> top_k,
                    error |-> r.error, result |-> r.result]
        /\ UNCHANGED <<index, config, external_reranker, manager, hash_seed, writer, reader>>

FusionNext ==
    \/ \E result_lists \in SeqsUpTo(FusionLists, 0, MaxLists),
          weights \in SeqsUpTo(FusionWeights, 0, MaxLists), top_k \in TopKs :
        Rerank(result_lists, weights, top_k)
    \/ Return

SpecFusion == FusionInit /\ [][FusionNext]_vars

-----------------------------------------------------------------------------------------------------------------------------------------------------
(* Two threads on one KeywordRetriever: one inside add_documents, one      *)
(* inside search.  The source takes no lock, so the statements of the two  *)
(* calls interleave.  A step here is one statement that reads or writes a  *)
(* field of the retriever, together with the statements on local variables *)
(* that follow it; a loop takes one step per statement of each iteration.  *)
(* The batches are well-formed, so that no call fails on its own.          *)

ConcBatches == SeqsUpTo(DocPool \ {DocMalformed}, 1, MaxBatch)

ReaderSame == UNCHANGED <<config, external_reranker, manager, hash_seed, call, reader>>
WriterSame == UNCHANGED <<config, external_reranker, manager, hash_seed, call, writer>>

\* add_documents, line 182: self.documents.extend(documents)
WExtend(batch) ==
    /\ writer.pc = "idle"
    /\ Len(documents) + Len(batch) <= MaxDocs
    /\ documents' = documents \o batch
    /\ writer' = [pc |-> "141"]
    /\ UNCHANGED <<document_terms, doc_lengths, term_doc_freq, avg_doc_length>>
    /\ ReaderSame

\* _build_index, line 141: self.document_terms = []
WResetTerms ==
    /\ writer.pc = "141"
    /\ document_terms' = <<>>
    /\ writer' = [pc |-> "142"]
    /\ UNCHANGED <<documents, doc_lengths, term_doc_freq, avg_doc_length>>
    /\ ReaderSame

\* _build_index, line 142: self.doc_lengths = []
WResetLengths ==
    /\ writer.pc = "142"
    /\ doc_lengths' = <<>>
    /\ writer' = [pc |-> "143"]
    /\ UNCHANGED <<documents, document_terms, term_doc_freq, avg_doc_length>>
    /\ ReaderSame

\* _build_index, line 143: self.term_doc_freq = defaultdict(int)
WResetFreq ==
    /\ writer.pc = "143"
    /\ term_doc_freq' = EmptyFreq
    /\ writer' = [pc |-> "145", i |-> 1]
    /\ UNCHANGED <<documents, document_terms, doc_lengths, avg_doc_length>>
    /\ ReaderSame

\* what follows the inner loop over `rest`, the terms of document i not yet
\* counted: the loop itself, or the next document
AfterCount(i, rest) ==
    IF rest = {} THEN [pc |-> "145", i |-> i + 1] ELSE [pc |-> "151", i |-> i, rest |-> rest]

\* _build_index, lines 145-146: the next document of self.documents and its
\* terms, or the end of the loop; doc['content'] of a malformed document
\* raises KeyError, which ends add_documents
WNext ==
    /\ writer.pc = "145"
    /\ writer' =
        IF writer.i > Len(documents) THEN [pc |-> "153"]
        ELSE IF IsMalformed(documents[writer.i]) THEN Idle
        ELSE [pc |-> "147", i |-> writer.i,
              terms |-> PreprocessText(documents[writer.i].content)]
    /\ UNCHANGED index
    /\ ReaderSame

\* _build_index, line 147: self.document_terms.append(terms)
WAppendTerms ==
    /\ writer.pc = "147"
    /\ document_terms' = Append(document_terms, writer.terms)
    /\ writer' = [writer EXCEPT !.pc = "148"]
    /\ UNCHANGED <<documents, doc_lengths, term_doc_freq, avg_doc_length>>
    /\ ReaderSame

\* _build_index, lines 148-150: self.doc_lengths.append(len(terms)), and
\* set(terms)
WAppendLength ==
    /\ writer.pc = "148"
    /\ doc_lengths' = Append(doc_lengths, Len(writer.terms))
    /\ writer' = AfterCount(writer.i, TermSet(writer.terms))
    /\ UNCHANGED <<documents, document_terms, term_doc_freq, avg_doc_length>>
    /\ ReaderSame

\* freq[term] += 1 on a defaultdict(int)
Incremented(freq, term) ==
    [t \in DOMAIN freq \cup {term} |->
        (IF t \in DOMAIN freq THEN freq[t] ELSE 0) + (IF t = term THEN 1 ELSE 0)]

\* _build_index, lines 150-151: self.term_doc_freq[term] += 1 for one term
\* of set(terms), which is iterated in an order of its own
WCount ==
    /\ writer.pc = "151"
    /\ \E term \in writer.rest :
        /\ term_doc_freq' = Incremented(term_doc_freq, term)
        /\ writer' = AfterCount(writer.i, writer.rest \ {term})
    /\ UNCHANGED <<documents, document_terms, doc_lengths, avg_doc_length>>
    /\ ReaderSame

\* _build_index, line 153
WAverage ==
    /\ writer.pc = "153"
    /\ SetIndex(BuildAverage(Self))
    /\ writer' = Idle
    /\ ReaderSame

\* search ends: it returns `result`, or raises `error`
Ended(error, result) == [pc |-> "done", error |-> error, result |-> result]

\* search, lines 187-193: the two early returns
RStart(query, top_k) ==
    /\ reader.pc = "idle"
    /\ reader' =
        IF documents = <<>> \/ PreprocessText(query) = <<>> THEN Ended("", <<>>)
        ELSE [pc |-> "197", query_terms |-> PreprocessText(query), top_k |-> top_k]
    /\ UNCHANGED index
    /\ WriterSame

\* search, lines 196-197: doc_scores = [] and range(len(self.documents))
RRange ==
    /\ reader.pc = "197"
    /\ reader' = [pc |-> "157", query_terms |-> reader.query_terms,
                  top_k |-> reader.top_k, i |-> 1, n |-> Len(documents),
                  doc_scores |-> <<>>]
    /\ UNCHANGED index
    /\ WriterSame

\* _calculate_bm25_score, line 157: doc_terms = self.document_terms[doc_idx]
RTerms ==
    /\ reader.pc = "157"
    /\ reader' =
        IF reader.i > Len(document_terms) THEN Ended("IndexError", <<>>)
        ELSE [pc |-> "158", query_terms |-> reader.query_terms, top_k |-> reader.top_k,
              i |-> reader.i, n |-> reader.n, doc_scores |-> reader.doc_scores,
              doc_terms |-> document_terms[reader.i]]
    /\ UNCHANGED index
    /\ WriterSame

\* lines 166-167, 199-200 and 203: on local variables only.  From query term
\* j on, the terms that are not in the document are passed over; after the
\* last term the score is kept if it is > 0 and the scan goes on with the
\* next document, or ends with the sort of the scores.
RECURSIVE AfterTerm(_, _, _)
AfterTerm(r, j, score) ==
    IF j <= Len(r.query_terms)
    THEN IF TermFreq(r.doc_terms, r.query_terms[j]) = 0
         THEN AfterTerm(r, j + 1, score)
         ELSE [pc |-> "169", query_terms |-> r.query_terms, top_k |-> r.top_k,
               i |-> r.i, n |-> r.n, doc_scores |-> r.doc_scores,
               doc_terms |-> r.doc_terms, doc_length |-> r.doc_length,
               j |-> j, score |-> score]
    ELSE
        LET doc_scores == IF HasScore(score)
                          THEN Append(r.doc_scores, [idx |-> r.i, score |-> score])
                          ELSE r.doc_scores
        IN  IF r.i < r.n
            THEN [pc |-> "157", query_terms |-> r.query_terms, top_k |-> r.top_k,
                  i |-> r.i + 1, n |-> r.n, doc_scores |-> doc_scores]
            ELSE [pc |-> "207", top |-> Take(SortDesc(doc_scores), r.top_k),
                  results |-> <<>>]

\* _calculate_bm25_score, lines 158-164: doc_length = self.doc_lengths[doc_idx],
\* score = 0.0 and the term frequencies of doc_terms
RLength ==
    /\ reader.pc = "158"
    /\ reader' =
        IF reader.i > Len(doc_lengths) THEN Ended("IndexError", <<>>)
        ELSE AfterTerm(reader @@ [doc_length |-> doc_lengths[reader.i]], 1, RZero)
    /\ UNCHANGED index
    /\ WriterSame

\* freq[term] read on a defaultdict(int): a key that is missing is inserted
\* with 0
Touched(freq, term) ==
    [t \in DOMAIN freq \cup {term} |-> IF t \in DOMAIN freq THEN freq[t] ELSE 0]

\* _calculate_bm25_score, line 169: df = self.term_doc_freq[term]
RDf ==
    /\ reader.pc = "169"
    /\ reader' = [reader EXCEPT !.pc = "170"]
                 @@ [df |-> DocFreq(Self, reader.query_terms[reader.j])]
    /\ term_doc_freq' = Touched(term_doc_freq, reader.query_terms[reader.j])
    /\ UNCHANGED <<documents, document_terms, doc_lengths, avg_doc_length>>
    /\ WriterSame

\* _calculate_bm25_score, lines 170-173: idf, with len(self.documents), and
\* tf = term_freq[term]
RIdf ==
    /\ reader.pc = "170"
    /\ reader' = [reader EXCEPT !.pc = "174"]
                 @@ [idf |-> IdfOf(reader.df, Len(documents)),
                     tf |-> TermFreq(reader.doc_terms, reader.query_terms[reader.j])]
    /\ UNCHANGED index
    /\ WriterSame

\* _calculate_bm25_score, lines 174-177: tf_component, with
\* self.avg_doc_length, and score += idf * tf_component
RTf ==
    /\ reader.pc = "174"
    /\ reader' =
        IF avg_doc_length.n = 0 THEN Ended("ZeroDivisionError", <<>>)
        ELSE AfterTerm(reader, reader.j + 1,
                       RAdd(reader.score,
                            RMul(reader.idf,
                                 TfComponent(Self, reader.tf, reader.doc_length))))
    /\ UNCHANGED index
    /\ WriterSame

\* search, lines 207-229: one entry of doc_scores[:top_k], with
\* doc = self.documents[doc_idx]
RFormat ==
    /\ reader.pc = "207"
    /\ Len(reader.results) < Len(reader.top)
    /\ \E e \in {reader.top[Len(reader.results) + 1]} :
        reader' = [reader EXCEPT
                    !.results = Append(@, FormatResult(documents[e.idx], e.score))]
    /\ UNCHANGED index
    /\ WriterSame

\* search, line 231: return results
RResults ==
    /\ reader.pc = "207"
    /\ Len(reader.results) = Len(reader.top)
    /\ reader' = Ended("", reader.results)
    /\ UNCHANGED index
    /\ WriterSame

\* the caller of search takes the result (or the exception)
RReturn ==
    /\ reader.pc = "done"
    /\ reader' = Idle
    /\ UNCHANGED index
    /\ WriterSame

ConcNext ==
    \/ \E batch \in ConcBatches : WExtend(batch)
    \/ WResetTerms
    \/ WResetLengths
    \/ WResetFreq
    \/ WNext
    \/ WAppendTerms
    \/ WAppendLength
    \/ WCount
    \/ WAverage
    \/ \E query \in Queries, top_k \in TopKs : RStart(query, top_k)
    \/ RRange
    \/ RTerms
    \/ RLength
    \/ RDf
    \/ RIdf
    \/ RTf
    \/ RFormat
    \/ RResults
    \/ RReturn

SpecConc == IndexInit /\ [][ConcNext]_vars

-----------------------------------------------------------------------------
(* Properties of fusion and of the orchestrator (specification Spec).      *)

Contents(results) == [i \in DOMAIN results |-> results[i].content]

Distinct(seq) == \A i, j \in DOMAIN seq : seq[i] = seq[j] => i = j

\* a search call that got as far as fusion
Fused == call.op = "search" /\ call.error \in {"", "RemoteError"}

\* the sum of weight / (r + k) over the ranks r of S
RECURSIVE ReciprocalSum(_, _, _)
ReciprocalSum(S, weight, k) ==
    IF S = {} THEN RZero
    ELSE LET r == CHOOSE x \in S : TRUE
         IN  RAdd(Rat(weight.n, weight.d * (r + k)), ReciprocalSum(S \ {r}, weight, k))

RanksOf(results, content) == {r \in DOMAIN results : results[r].content = content}

\* what the claim gives a content: the contributions of the vector list and
\* of the keyword list, each at every rank where the content stands
ExpectedScore(content) ==
    RAdd(ReciprocalSum(RanksOf(call.vector_results, content), config.vector_weight,
                       config.rrf_k),
         ReciprocalSum(RanksOf(call.keyword_results, content), config.keyword_weight,
                       config.rrf_k))

\* the spec's worked example: A = [d1, d2], B = [d2, d3], weights [1, 1], k = 0
WorkedExampleRRF ==
    /\ Fused
    /\ config = [rrf_k |-> 0, vector_weight |-> RInt(1), keyword_weight |-> RInt(1)]
    /\ Contents(call.vector_results) = <<Doc1.content, Doc2.content>>
    /\ Contents(call.keyword_results) = <<Doc2.content, Doc4.content>>
    /\ call.top_k >= 3

\* C1: the fused score of every content returned by rerank_with_weights (and
\* by search when there is no external reranker) is the sum, over the two
\* lists and every 1-based rank r at which the content stands, of
\* weight / (r + k); in the worked example the scores are d2 = 3/2, d1 = 1,
\* d3 = 1/2.
C1_FusedScoreIsReciprocalSum ==
    Fused =>
        /\ \A i \in DOMAIN call.fused :
            Real(call.fused[i].weighted_rrf_score) = ExpectedScore(call.fused[i].content)
        /\ (external_reranker = "None" =>
                \A i \in DOMAIN call.result :
                    Real(call.result[i].weighted_rrf_score)
                        = ExpectedScore(call.result[i].content))
        /\ (WorkedExampleRRF =>
                /\ Contents(call.fused) = <<Doc2.content, Doc1.content, Doc4.content>>
                /\ [i \in DOMAIN call.fused |-> call.fused[i].weighted_rrf_score]
                        = <<Rat(3, 2) @@ DoubleOf(3, 2), RInt(1) @@ DoubleOf(1, 1),
                            Rat(1, 2) @@ DoubleOf(1, 2)>>)

\* C1 witness: the worked example is searched without an external reranker;
\* d2 stands in both lists, d1 and d3 in one.
C1_Witness ==
    WorkedExampleRRF /\ external_reranker = "None" /\ Len(call.result) = 3

\* C2: when the external reranker was built and its rerank call fails during
\* a query, search does not raise and returns the fused results.
C2_RerankFailureIsIsolated ==
    (call.op = "search" /\ external_reranker = "Pinecone" /\ call.remote.raises)
        => (call.error = "" /\ call.result = call.fused)

RerankFields == {"rerank_score", "rerank_position"}

\* C3: when building the external reranker fails (or is skipped for want of
\* a key), RetrievalManager is constructed all the same, without an external
\* reranker, and every search that returns a list returns the fused list as
\* it is, no rerank field added.
C3_RerankerConstructionFailureIsIsolated ==
    /\ manager.status = "constructed"
    /\ manager.reranker_init # "built" =>
        /\ external_reranker = "None"
        /\ call.op = "search" =>
            /\ call.error # "RemoteError"
            /\ call.remote = NoRemote
            /\ call.error = "" =>
                /\ call.result = call.fused
                /\ \A i \in DOMAIN call.result :
                    DOMAIN call.result[i] \cap RerankFields = {}

\* C3 witness: the constructor of the reranker raised, and a later search
\* returns a fused list of several entries.
C3_Witness ==
    /\ manager.reranker_init = "raised"
    /\ manager.error \in {"ImportError", "ClientError"}
    /\ call.op = "search" /\ call.error = ""
    /\ Len(call.result) >= 2

\* C4: the list returned by search has at most top_k entries, whatever the
\* dense backend and the external reranker do; so have the keyword list and
\* the fused list.
C4_AtMostTopK ==
    (call.op = "search" /\ call.error = "") =>
        /\ Len(call.result) <= call.top_k
        /\ Len(call.keyword_results) <= call.top_k
        /\ Len(call.fused) <= call.top_k

\* C5: the list returned by search never holds two entries with the same
\* content, whatever the two lists hold and whatever indices the external
\* reranker returns.
C5_NoDuplicateContent ==
    (call.op = "search" /\ call.error = "") => Distinct(Contents(call.result))

\* a search that the external reranker has answered
ExternallyReranked ==
    /\ call.op = "search" /\ call.error = ""
    /\ external_reranker = "Pinecone" /\ call.fused # <<>>

\* C23: the external reranker rebuilds the ordering from the response of
\* the remote service: the list returned has one entry per entry of the
\* response, in the order of the response; entry i is the fused result at
\* the index of entry i of the response, with the score of that entry and
\* the rank i attached, and all the fields of the fused result as they were.
C23_OrderingRebuiltFromResponse ==
    ExternallyReranked
        => /\ Len(call.result) = Len(call.remote.data)
           /\ \A i \in DOMAIN call.result :
                /\ i \in DOMAIN call.remote.data
                /\ {"index", "score"} \subseteq DOMAIN call.remote.data[i]
                /\ call.remote.data[i].index + 1 \in DOMAIN call.fused
                /\ call.result[i]
                    = [rerank_score |-> call.remote.data[i].score, rerank_position |-> i]
                      @@ call.fused[call.remote.data[i].index + 1]

\* C30: rerank_with_weights and the external reranker leave their inputs
\* as they were: after a search the vector list and the keyword list have
\* the length, the order and the dictionaries they had when fusion got
\* them, no key added or changed, and so has the fused list the external
\* reranker got; weighted_rrf_score, rerank_score and rerank_position are
\* in the dictionaries returned only.
C30_InputsUnchanged ==
    (call.op = "search" /\ call.error = "") =>
        /\ call.lists_after = <<call.vector_results, call.keyword_results>>
        /\ call.fused_after = call.fused
        /\ \A l \in DOMAIN call.lists_after : \A r \in DOMAIN call.lists_after[l] :
                DOMAIN call.lists_after[l][r]
                    \cap ({"weighted_rrf_score"} \cup RerankFields) = {}
        /\ \A r \in DOMAIN call.fused_after :
                DOMAIN call.fused_after[r] \cap RerankFields = {}

\* C30 witness: a search has fused a vector list and a keyword list, both
\* with results, and the external reranker has returned fused results with
\* its fields.
C30_Witness ==
    /\ ExternallyReranked
    /\ call.vector_results # <<>> /\ call.keyword_results # <<>>
    /\ call.result # <<>>
    /\ RerankFields \subseteq DOMAIN call.result[1]
    /\ "weighted_rrf_score" \in DOMAIN call.fused[1]

-----------------------------------------------------------------------------
(* Properties of rerank_with_weights called directly (specification        *)
(* SpecFusion).                                                            *)

Reranked == call.op = "rerank_with_weights"

\* C16: rerank_with_weights fails with ValueError, returning no list,
\* exactly when the number of result lists differs from the number of
\* weights; with equal numbers it does not fail, and no list with no weight
\* gives the empty list.
C16_MismatchIsConfigurationError ==
    Reranked =>
        /\ call.error = "ValueError" <=> Len(call.result_lists) # Len(call.weights)
        /\ call.error \in {"", "ValueError"}
        /\ call.error = "ValueError" => call.result = <<>>
        /\ (call.result_lists = <<>> /\ call.weights = <<>>)
                => (call.error = "" /\ call.result = <<>>)

\* C16 witness: a call with a non-empty list and fewer weights than lists
\* has failed.
C16_Witness ==
    /\ Reranked /\ call.error = "ValueError"
    /\ Len(call.weights) < Len(call.result_lists)
    /\ \E i \in DOMAIN call.result_lists : call.result_lists[i] # <<>>
    /\ call.top_k > 0

\* the contents of a fused list, each with its fused score
Scores(result) ==
    {<<result[i].content, result[i].weighted_rrf_score>> : i \in DOMAIN result}

\* the number of results in all the lists: a top_k that cuts nothing off
Total(result_lists) == SumSeq([i \in DOMAIN result_lists |-> Len(result_lists[i])])

\* the (list, weight) pairs of the call passed in the order p, with a top_k
\* that returns every content
Permuted(p) ==
    RerankWithWeights(config.rrf_k,
                      [i \in DOMAIN call.result_lists |-> call.result_lists[p[i]]],
                      [i \in DOMAIN call.weights |-> call.weights[p[i]]],
                      Total(call.result_lists))

Unpermuted == [i \in DOMAIN call.result_lists |-> i]

\* C17: fusion is commutative across the input lists: passing the (list,
\* weight) pairs in another order gives the same contents with the same
\* fused scores; a call whose top_k cuts nothing off returns them.
C17_FusionIsCommutative ==
    (Reranked /\ call.error = "") =>
        /\ \A p \in Permutations(DOMAIN call.result_lists) :
            /\ Permuted(p).error = ""
            /\ Scores(Permuted(p).result) = Scores(Permuted(Unpermuted).result)
        /\ call.top_k >= Total(call.result_lists) =>
                Scores(call.result) = Scores(Permuted(Unpermuted).result)

\* the calls of C20: two lists, one of them empty, the other with pairwise
\* distinct contents
OneEmptyList(e) ==
    /\ Reranked
    /\ Len(call.result_lists) = 2 /\ Len(call.weights) = 2
    /\ call.result_lists[e] = <<>>
    /\ Distinct(Contents(call.result_lists[3 - e]))

\* the first top_k entries of L in the order of L, the entry at 1-based rank
\* r with the fused score w / (r + k)
WeightedRanking(L, w, k, top_k) ==
    [r \in 1..(IF top_k < Len(L) THEN top_k ELSE Len(L)) |->
        [weighted_rrf_score |->
            Rat(w.n, w.d * (r + k))
                @@ DoubleMul(DoubleOf(w.n, w.d), DoubleOf(1, r + k))] @@ L[r]]

\* C20: when one of the two lists passed to rerank_with_weights is empty
\* and the other list L has pairwise distinct contents, the output is the
\* first top_k entries of L in the order of L, each with the fused score
\* w / (rank + k) for the weight w of L.
C20_OneEmptyListDegenerates ==
    \A e \in 1..2 :
        OneEmptyList(e) =>
            /\ call.error = ""
            /\ call.result = WeightedRanking(call.result_lists[3 - e], call.weights[3 - e],
                                             config.rrf_k, call.top_k)

\* C20 witness: the first list is empty, the second has three entries and a
\* weight other than 1, and top_k cuts it.
C20_Witness ==
    /\ OneEmptyList(1)
    /\ Len(call.result_lists[2]) = 3
    /\ call.weights[2] # RInt(1)
    /\ call.top_k = 2 /\ Len(call.result) = 2

\* the results of all the lists of the call, in list order then rank order
RECURSIVE Flat(_)
Flat(result_lists) ==
    IF result_lists = <<>> THEN <<>> ELSE Head(result_lists) \o Flat(Tail(result_lists))

AllResults == Flat(call.result_lists)

AllContents == {AllResults[i].content : i \in DOMAIN AllResults}

\* where a content appears first
FirstAppearance(content) ==
    CHOOSE i \in DOMAIN AllResults :
        /\ AllResults[i].content = content
        /\ \A j \in 1..(i - 1) : AllResults[j].content # content

\* the fused score of a content: over the lists and the ranks where it
\* stands, the sum of weight / (rank + k)
RECURSIVE FusedScoreFrom(_, _)
FusedScoreFrom(content, i) ==
    IF i > Len(call.result_lists) THEN RZero
    ELSE RAdd(ReciprocalSum(RanksOf(call.result_lists[i], content), call.weights[i],
                            config.rrf_k),
              FusedScoreFrom(content, i + 1))

\* c stands before d in the ordering of the claim: a greater fused score,
\* or the same and an earlier first appearance
Precedes(c, d) ==
    \/ RLess(FusedScoreFrom(d, 1), FusedScoreFrom(c, 1))
    \/ /\ FusedScoreFrom(d, 1) = FusedScoreFrom(c, 1)
       /\ FirstAppearance(c) < FirstAppearance(d)

\* C21: the output of rerank_with_weights is sorted by fused score, not
\* increasing; contents with the same fused score stand in the order of
\* their first appearance (list order, then rank order); and the output is
\* the first top_k entries of that ordering.
C21_SortedStableAndCut ==
    (Reranked /\ call.error = "") =>
        /\ Distinct(Contents(call.result))
        /\ \A i \in DOMAIN call.result :
            /\ call.result[i].content \in AllContents
            /\ Real(call.result[i].weighted_rrf_score)
                    = FusedScoreFrom(call.result[i].content, 1)
        /\ \A i, j \in DOMAIN call.result :
            i < j => /\ ~RLess(call.result[i].weighted_rrf_score,
                               call.result[j].weighted_rrf_score)
                     /\ Precedes(call.result[i].content, call.result[j].content)
        /\ Len(call.result) = (IF call.top_k < Cardinality(AllContents)
                               THEN call.top_k ELSE Cardinality(AllContents))
        /\ \A c \in AllContents \ {call.result[i].content : i \in DOMAIN call.result} :
            \A i \in DOMAIN call.result : Precedes(call.result[i].content, c)

\* C21 witness: two contents returned have the same fused score, the one
\* that appeared first standing first, and top_k cuts a content off.
C21_Witness ==
    /\ Reranked /\ call.error = ""
    /\ Len(call.result) = call.top_k
    /\ call.top_k < Cardinality(AllContents)
    /\ \E i, j \in DOMAIN call.result :
        /\ i < j
        /\ call.result[i].weighted_rrf_score = call.result[j].weighted_rrf_score

\* a fused entry without its fused score
WithoutFusedScore(entry) ==
    [f \in DOMAIN entry \ {"weighted_rrf_score"} |-> entry[f]]

\* C22: every field of a fused entry other than the fused score
\* (file_name, metadata, score) is that of the first occurrence of its
\* content, in list order then rank order; later occurrences, in another
\* list or in the same, add to the fused score only.
C22_FieldsOfFirstOccurrence ==
    (Reranked /\ call.error = "") =>
        \A i \in DOMAIN call.result :
            /\ call.result[i].content \in AllContents
            /\ WithoutFusedScore(call.result[i])
                    = AllResults[FirstAppearance(call.result[i].content)]
            /\ Real(call.result[i].weighted_rrf_score)
                    = FusedScoreFrom(call.result[i].content, 1)

\* C22 witness: a content returned stands in two lists with different
\* file names and scores, and its fused score is more than its first
\* occurrence gives.
C22_Witness ==
    /\ Reranked /\ call.error = "" /\ Len(call.result_lists) = 2
    /\ \E i \in DOMAIN call.result :
        \E a \in DOMAIN call.result_lists[1], b \in DOMAIN call.result_lists[2] :
            /\ call.result_lists[1][a].content = call.result[i].content
            /\ call.result_lists[2][b].content = call.result[i].content
            /\ call.result_lists[1][a].file_name # call.result_lists[2][b].file_name
            /\ call.result[i].file_name = call.result_lists[1][a].file_name
            /\ RLess(Rat(call.weights[1].n, call.weights[1].d * (a + config.rrf_k)),
                     call.result[i].weighted_rrf_score)

-----------------------------------------------------------------------------
(* Properties of the two entry points (specification SpecScores).          *)

Hybrid == call.op \in {"search", "search_with_scores"}

\* C15: when a dense search fails during a query, the failure propagates
\* out of search and out of search_with_scores: the call ends with the
\* error of the backend and returns nothing, the keyword results neither.
C15_DenseFailurePropagates ==
    (Hybrid /\ call.dense_failed) =>
        (call.error = "UpstreamError" /\ call.result = <<>>)

\* C15 witness: the dense search of a call has failed, on a corpus and a
\* query for which the keyword search returns results.
C15_Witness ==
    /\ Hybrid /\ call.dense_failed
    /\ KeywordSearch(Self, call.query, call.top_k).error = ""
    /\ KeywordSearch(Self, call.query, call.top_k).result # <<>>

\* what search returns for the query and top_k of the call on the same
\* corpus, the dense search giving the results it gave in the call and the
\* remote reranker the answer it gave
SameSearch ==
    LET kw == KeywordSearch(Self, call.query, call.top_k)
        rrf == RerankWithWeights(config.rrf_k, <<call.vector_results, kw.result>>,
                                 <<config.vector_weight, config.keyword_weight>>,
                                 call.top_k)
    IN  IF kw.error # "" THEN [error |-> kw.error, result |-> <<>>]
        ELSE IF rrf.error # "" THEN [error |-> rrf.error, result |-> <<>>]
        ELSE Finish(external_reranker,
                    [error |-> "", vector_results |-> call.vector_results,
                     keyword_results |-> kw.result, fused |-> rrf.result],
                    call.top_k, call.remote)

\* C18: the reranked_results of search_with_scores are the list search
\* returns for the same query, top_k, corpus and behaviour of the backends:
\* the same entries in the same order.
C18_ScoresKeepTheRanking ==
    (call.op = "search_with_scores" /\ call.error = "") =>
        /\ SameSearch.error = ""
        /\ call.result.reranked_results = SameSearch.result
        /\ call.result.query = call.query

\* C18 witness: search_with_scores has returned several results that the
\* external reranker has put in another order than fusion, with a top score
\* for both retrievers.
C18_Witness ==
    /\ call.op = "search_with_scores" /\ call.error = ""
    /\ external_reranker = "Pinecone"
    /\ Len(call.result.reranked_results) >= 2
    /\ call.result.reranked_results[1].content # call.fused[1].content
    /\ {"vector_top_score", "keyword_top_score"} \subseteq DOMAIN call.result.retrieval_stats

\* C27: the rrf_top_score of search_with_scores is the largest
\* weighted_rrf_score of the results it returns, and 0 when it returns none,
\* with and without the external reranker.
C27_TopScoreIsTheMaximum ==
    (call.op = "search_with_scores" /\ call.error = "") =>
        LET returned == call.result.reranked_results
            top == call.result.retrieval_stats.rrf_top_score
        IN  IF returned = <<>> THEN top = RZero
            ELSE /\ \E i \in DOMAIN returned : returned[i].weighted_rrf_score = top
                 /\ \A i \in DOMAIN returned : ~RLess(top, returned[i].weighted_rrf_score)

-----------------------------------------------------------------------------
(* Properties of the chat agent (specification SpecAgent).                 *)

Asked == call.op \in {"query", "query_with_stats"}

\* what has failed in the call, if anything: retrieval first
Failure ==
    IF call.retrieval_error # "" THEN call.retrieval_error
    ELSE IF call.llm_raises THEN "LLMError" ELSE ""

\* C28: query and query_with_stats never raise: they return a dictionary
\* with the question of the caller; when retrieval (dense search, keyword
\* search, fusion, external rerank) or the language model has failed, its
\* answer is the error text, its context is empty and its sources are the
\* empty list, nothing built before the failure being left in them.
C28_QueryNeverRaises ==
    Asked =>
        /\ call.error = ""
        /\ {"answer", "context", "sources", "question"} \subseteq DOMAIN call.result
        /\ call.result.question = call.question
        /\ Failure # "" =>
            /\ call.result.answer = ErrorText(Failure)
            /\ call.result.context = <<>>
            /\ call.result.sources = <<>>
            /\ "vector_top_score" \notin DOMAIN call.result
        /\ Failure = "" =>
            /\ Len(call.result.context) = Len(call.retrieved_docs)
            /\ Len(call.result.sources) = Len(call.retrieved_docs)

\* C28 witness: retrieval has returned documents, the language model has
\* failed, and the call has returned the error dictionary.
C28_Witness ==
    /\ Asked /\ call.retrieval_error = "" /\ call.llm_raises
    /\ call.retrieved_docs # <<>>
    /\ call.error = "" /\ call.result.context = <<>>

-----------------------------------------------------------------------------
(* Properties of the data loader (specification SpecLoader).               *)

Loaded == call.op = "load_ocr_data" /\ call.error = ""

\* the non-blank chunks of the file of the call, as <<record, chunk, text>>
FileChunks ==
    {<<i, ci, Strip(ChunksOf(Strip(call.ocr_data[i].text), call.chunking)[ci])>> :
        <<i, ci>> \in {p \in (DOMAIN call.ocr_data) \X (1..3) :
            /\ "text" \in DOMAIN call.ocr_data[p[1]]
            /\ p[2] \in DOMAIN ChunksOf(Strip(call.ocr_data[p[1]].text), call.chunking)}}

\* attempt a of the call is about a chunk that comes before chunk c
Earlier(a, c) ==
    \/ call.attempts[a].item < c[1]
    \/ /\ call.attempts[a].item = c[1]
       /\ call.attempts[a].payload_extra.chunk_index < c[2]

\* C29: with enable_dedup a chunk is seen only once it has been saved:
\* every non-blank chunk of the file is handed to save_text unless an
\* earlier chunk with the same text has been saved, also after a save_text
\* that raised for the same text or for an earlier chunk of the same
\* record; the count returned is the number of save_text calls that
\* returned normally.
C29_SeenOnlyOnceSaved ==
    (Loaded /\ call.enable_dedup) =>
        /\ call.result = Cardinality({a \in DOMAIN call.attempts : call.attempts[a].ok})
        /\ \A c \in FileChunks :
            c[3] # <<>> =>
                \/ \E a \in DOMAIN call.attempts :
                    /\ call.attempts[a].item = c[1]
                    /\ call.attempts[a].payload_extra.chunk_index = c[2]
                \/ \E a \in DOMAIN call.attempts :
                    /\ call.attempts[a].ok
                    /\ call.attempts[a].text = c[3]
                    /\ Earlier(a, c)

-----------------------------------------------------------------------------
(* Properties of the keyword index (specification SpecIndex).              *)

WellFormed(docs) == SelectSeq(docs, LAMBDA d: ~IsMalformed(d))

\* the index holds one entry per document
Consistent ==
    /\ Len(document_terms) = Len(documents)
    /\ Len(doc_lengths) = Len(documents)

QueryTerms(query) == TermSet(PreprocessText(query))

\* the result of a keyword search that returned
Returned == call.op = "kw_search" /\ call.error = ""

\* C6: the BM25 worked example: corpus [jiazhi jiazhi laodong], [jiage
\* shichang], [laodong jiazhi], query jiazhi: search leaves document 2 out
\* and returns documents 1 and 3, both with a score > 0, document 1 first.
C6_WorkedExampleBM25 ==
    (/\ Returned
     /\ documents = <<Doc1, Doc2, Doc3>>
     /\ call.query = <<"jiazhi">>
     /\ call.top_k >= 2)
        => /\ Contents(call.result) = <<Doc1.content, Doc3.content>>
           /\ \A i \in DOMAIN call.result : RPos(call.result[i].score)

\* C7: a document none of whose terms is a query term has a BM25 score of
\* exactly 0 and is in no list returned by KeywordRetriever.search.
C7_NoQueryTermNoScore ==
    Returned =>
        /\ \A i \in DOMAIN call.result :
            QueryTerms(call.query) \cap QueryTerms(call.result[i].content) # {}
        /\ \A d \in DOMAIN document_terms :
            TermSet(document_terms[d]) \cap QueryTerms(call.query) = {}
                => CalculateBm25Score(Self, PreprocessText(call.query), d)
                        = [error |-> "", score |-> RZero]

\* C7 witness: a search returns some documents while the corpus holds a
\* document with terms, none of them a query term.
C7_Witness ==
    /\ Returned /\ call.result # <<>>
    /\ \E d \in DOMAIN document_terms :
        /\ document_terms[d] # <<>>
        /\ TermSet(document_terms[d]) \cap QueryTerms(call.query) = {}

\* C8: KeywordRetriever.search never raises, on any corpus the constructor
\* and add_documents reach and any query, and returns the empty list on an
\* empty corpus and on a query without terms.
C8_SearchNeverRaises ==
    call.op = "kw_search" =>
        /\ call.error = ""
        /\ (documents = <<>> \/ PreprocessText(call.query) = <<>>) => call.result = <<>>

\* C9: add_documents with a malformed document in the batch does not raise
\* and indexes every well-formed document.
C9_MalformedDocumentIsSkipped ==
    call.op = "add_documents" =>
        /\ call.error = ""
        /\ Len(document_terms) = Len(WellFormed(documents))
        /\ Len(doc_lengths) = Len(WellFormed(documents))

\* the terms of document i of the corpus, computed from its content
TermsOf(i) == PreprocessText(documents[i].content)

\* no document of the corpus is malformed: no add_documents has raised so
\* far (a call that raises leaves its malformed document in the corpus)
AllReturnedNormally == \A i \in DOMAIN documents : ~IsMalformed(documents[i])

\* C11: after construction and after add_documents calls that all returned
\* normally, the index is the one of the whole corpus: document_terms and
\* doc_lengths have one entry per document, in insertion order;
\* term_doc_freq[t] is the number of documents with t among their terms,
\* and there is no entry for another term; avg_doc_length is the sum of the
\* lengths over the number of documents (0 for no document).
C11_IndexIsBuiltFromScratch ==
    AllReturnedNormally =>
        /\ document_terms = [i \in DOMAIN documents |-> TermsOf(i)]
        /\ doc_lengths = [i \in DOMAIN documents |-> Len(TermsOf(i))]
        /\ DOMAIN term_doc_freq = UNION {TermSet(TermsOf(i)) : i \in DOMAIN documents}
        /\ \A t \in DOMAIN term_doc_freq :
            term_doc_freq[t]
                = Cardinality({i \in DOMAIN documents : t \in TermSet(TermsOf(i))})
        /\ avg_doc_length =
            IF documents = <<>> THEN RZero
            ELSE Rat(SumSeq([i \in DOMAIN documents |-> Len(TermsOf(i))]), Len(documents))

\* C11 witness: a second add_documents has returned normally; the corpus
\* holds a document with a term twice, and a term that is in two documents.
C11_Witness ==
    /\ call.op = "add_documents" /\ call.error = ""
    /\ call.before.documents # <<>> /\ call.batch # <<>>
    /\ \E i \in DOMAIN document_terms :
        \E t \in TermSet(document_terms[i]) : TermFreq(document_terms[i], t) >= 2
    /\ \E t \in DOMAIN term_doc_freq : term_doc_freq[t] >= 2

\* C14: the list returned by KeywordRetriever.search never holds two
\* entries with the same content, on every corpus the constructor and
\* add_documents reach, a content given twice included.
C14_KeywordResultsHaveDistinctContents ==
    Returned => Distinct(Contents(call.result))

\* C19: the corpus is append-only and queries are read-only: after
\* add_documents the documents that were there before are still there, as a
\* prefix in the same order, followed by the batch; KeywordRetriever.search
\* leaves documents, document_terms, doc_lengths, term_doc_freq and
\* avg_doc_length as they were.
C19_AppendOnlyAndReadOnly ==
    /\ call.op = "add_documents" =>
        /\ Len(documents) >= Len(call.before.documents)
        /\ SubSeq(documents, 1, Len(call.before.documents)) = call.before.documents
        /\ documents = call.before.documents \o call.batch
    /\ call.op = "kw_search" => Self = call.before

\* C19 witness: a search has returned documents for a query one term of
\* which is in no document, on a corpus built by add_documents.
C19_Witness ==
    /\ Returned /\ call.result # <<>>
    /\ Len(documents) <= MaxDocs
    /\ \E t \in QueryTerms(call.query) : t \notin DOMAIN term_doc_freq
    /\ call.before.documents = documents

\* C25: add_documents that raises leaves the index as it was before the
\* call, one entry per document; so a later search does not raise, and a
\* later add_documents of well-formed documents does not raise.
C25_FailedAddLeavesTheIndex ==
    /\ (call.op = "add_documents" /\ call.error # "")
            => (Self = call.before /\ Consistent)
    /\ call.op = "kw_search" => call.error = ""
    /\ (call.op = "add_documents" /\ call.batch = WellFormed(call.batch))
            => call.error = ""

\* the documents with at least one of the terms of the query
Matching(query) ==
    {i \in DOMAIN documents :
        TermSet(TermsOf(i)) \cap QueryTerms(query) # {}}

\* C26: every document with at least one query term has a BM25 score > 0,
\* whatever part of the corpus has the term; so a search with top_k no less
\* than the size of the corpus returns exactly the documents with at least
\* one query term.
C26_MatchingDocumentsScorePositive ==
    Returned =>
        /\ \A i \in Matching(call.query) :
                RPos(CalculateBm25Score(call.before, PreprocessText(call.query), i).score)
        /\ call.top_k >= Len(documents) =>
                {call.result[i].content : i \in DOMAIN call.result}
                    = {documents[i].content : i \in Matching(call.query)}

-----------------------------------------------------------------------------
(* Properties of the dense-search adapter (specification SpecVec).         *)

\* a call of VecRetriever.search that returned
VecReturned == call.op = "vec_search" /\ call.error = ""

\* content, source, score and metadata of the raw records that are objects
\* with a payload or dicts, in the order of the backend
Normalized(raw_results) ==
    LET known == SelectSeq(raw_results, LAMBDA item: item.kind \in {"object", "dict"})
    IN  [i \in DOMAIN known |-> Normalize(known[i])]

\* of the records from i on, those with a non-empty content that no earlier
\* record has
RECURSIVE FirstOccurrences(_, _)
FirstOccurrences(recs, i) ==
    IF i > Len(recs) THEN <<>>
    ELSE (IF /\ recs[i].content # <<>>
             /\ \A j \in 1..(i - 1) : recs[j].content # recs[i].content
          THEN <<recs[i]>> ELSE <<>>)
         \o FirstOccurrences(recs, i + 1)

\* a string of whitespace only
IsBlank(text) == text # <<>> /\ Strip(text) = <<>>

\* C12: VecRetriever.search returns one entry per distinct non-empty content
\* of the raw records: the first occurrence, with that occurrence's source,
\* score and metadata, in the order of the backend; records with different
\* contents are never collapsed into one.
C12_OneEntryPerDistinctContent ==
    VecReturned => call.result = FirstOccurrences(Normalized(call.raw_results), 1)

\* C13: VecRetriever.search drops every raw record whose content is empty
\* or blank: no entry returned has an empty or whitespace-only content.
C13_NoBlankContent ==
    VecReturned =>
        \A i \in DOMAIN call.result :
            call.result[i].content # <<>> /\ ~IsBlank(call.result[i].content)

\* C24: the list VecRetriever.search returns has at most top_k entries,
\* whatever number of raw records the backend returns.
C24_VecAtMostTopK ==
    VecReturned => Len(call.result) <= call.top_k

-----------------------------------------------------------------------------
(* Properties of concurrent use (specification SpecConc).                  *)

\* the index a rebuild over the current documents gives
Rebuilt == BuildIndex([EmptyRetriever EXCEPT !.documents = documents]).self

\* the lines of the scan of search, lines 197-200 with _calculate_bm25_score
ScanLines == {"157", "158", "169", "170", "174"}

\* C10: a search concurrent with add_documents never observes a partly
\* rebuilt index: while it scans, the index holds one entry per document,
\* and document frequencies and average length are those of the documents.
C10_SearchSeesWholeIndex ==
    reader.pc \in ScanLines => (Consistent /\ Self = Rebuilt)

====
